---- MODULE Spec2Model ----
(***************************************************************************)
(* Evaluation semantics of the Istio AuthorizationPolicy resource as the   *)
(* types of pkg/security/v1beta1 document them: the string matcher of a    *)
(* Rule, the Source / Operation / Condition matchers, the Rule matcher and *)
(* the ALLOW / DENY precedence of the policies that select a workload.     *)
(*                                                                         *)
(* Strings that are matched by pattern are sequences of one-character      *)
(* strings, so that prefix, suffix and presence matching are computed.     *)
(* A Go pointer is a sequence of length 0 (nil) or 1; a Go map is a        *)
(* function with a finite domain.                                          *)
(***************************************************************************)
EXTENDS Integers, Sequences, FiniteSets, TLC

VARIABLES
    policies,   \* the policy snapshot: a sequence of AuthorizationPolicySpec
    workload,   \* the labels of the target workload
    attrs,      \* the attributes of the request last evaluated
    decision,   \* the result of the last decide call
    rule,       \* the Rule under evaluation by the rule matcher
    matched,    \* the result of the last matchRule call
    phase,      \* "init", then the name of the step taken last
    arg,        \* the arguments of the matcher under evaluation
    documents,  \* the policy documents handed to the loader
    calls,      \* the decide calls in flight, one per caller
    history,    \* the snapshots published so far
    result      \* what the decoder, resolver or copy applied last returned

vars == <<policies, workload, attrs, decision, rule, matched, phase,
          arg, documents, calls, history, result>>

(* What the evaluator and the rule matcher leave alone. *)
others == <<arg, documents, calls, history, result>>

NoOthers ==
    /\ arg = <<>>
    /\ documents = <<>>
    /\ calls = <<>>
    /\ history = {}
    /\ result = <<>>

----------------------------------------------------------------------------
(* Bounds *)

MaxPolicies == 2
MaxFrom == 2
MaxTo == 2
MaxWhen == 2
MaxRules == 2
MaxLen == 3
MaxList == 2

MaxReplace == 1

MaxChanges == 2

----------------------------------------------------------------------------
(* Strings used by the policies and the requests *)

Star == "*"

dev == <<"d", "e", "v">>
prod == <<"p", "r", "o", "d">>
proStar == <<"p", "r", "o", "*">>
POST == <<"P", "O", "S", "T">>
GET == <<"G", "E", "T">>
GStar == <<"G", "*">>
gooStar == <<"g", "o", "o", Star>>
google == <<"g", "o", "o", "g", "l", "e">>
other == <<"o", "t", "h", "e", "r">>
admin == <<"a", "d", "m", "i", "n">>
host == <<"a", ".", "c", "o", "m">>
port80 == <<"8", "0">>
pathInfo == <<"/", "i", "n", "f", "o">>
healthz == <<"/", "h", "e", "a", "l", "t", "h", "z">>
test == <<"t", "e", "s", "t">>
HEAD == <<"H", "E", "A", "D">>
port8080 == <<"8", "0", "8", "0">>
starExampleCom == <<Star, ".", "e", "x", "a", "m", "p", "l", "e", ".", "c", "o", "m">>
aExampleCom == <<"a", ".", "e", "x", "a", "m", "p", "l", "e", ".", "c", "o", "m">>
exampleOrg == <<"e", "x", "a", "m", "p", "l", "e", ".", "o", "r", "g">>
adminStar == <<"/", "a", "d", "m", "i", "n", Star>>
adminUsers == <<"/", "a", "d", "m", "i", "n", "/", "u", "s", "e", "r", "s">>
issSub == <<"i", "s", "s", "/", "s", "u", "b">>
empty == <<>>

IssKey == "request.auth.claims[iss]"
AudKey == "request.auth.claims[aud]"

ActionUnset == ""
AuthorizationPolicyActionAllow == "ALLOW"
AuthorizationPolicyActionDeny == "DENY"

----------------------------------------------------------------------------
(* String matcher of a Rule field: Exact, Prefix, Suffix and Presence *)

HasPrefix(value, prefix) ==
    /\ Len(prefix) <= Len(value)
    /\ SubSeq(value, 1, Len(prefix)) = prefix

HasSuffix(value, suffix) ==
    /\ Len(suffix) <= Len(value)
    /\ SubSeq(value, Len(value) - Len(suffix) + 1, Len(value)) = suffix

match_noPresence(pattern, value) ==
    IF Len(pattern) > 0 /\ pattern[Len(pattern)] = Star
    THEN HasPrefix(value, SubSeq(pattern, 1, Len(pattern) - 1))
    ELSE IF Len(pattern) > 0 /\ pattern[1] = Star
    THEN HasSuffix(value, SubSeq(pattern, 2, Len(pattern)))
    ELSE value = pattern

match(pattern, value) ==
    IF pattern = <<Star>>
    THEN Len(value) > 0
    ELSE IF Len(pattern) > 0 /\ pattern[Len(pattern)] = Star
    THEN HasPrefix(value, SubSeq(pattern, 1, Len(pattern) - 1))
    ELSE IF Len(pattern) > 0 /\ pattern[1] = Star
    THEN HasSuffix(value, SubSeq(pattern, 2, Len(pattern)))
    ELSE value = pattern

RECURSIVE matchAny(_, _)
matchAny(list, value) ==
    IF list = <<>> THEN FALSE
    ELSE IF match(Head(list), value) THEN TRUE
    ELSE matchAny(Tail(list), value)

(* A positive list that is not set allows any value; a value on the        *)
(* negative list is refused.                                               *)
matchPair_negativeOnlyAlone(positive, negative, value) ==
    IF positive # <<>>
    THEN matchAny(positive, value)
    ELSE negative = <<>> \/ ~matchAny(negative, value)

matchPair(positive, negative, value) ==
    /\ positive = <<>> \/ matchAny(positive, value)
    /\ negative = <<>> \/ ~matchAny(negative, value)

----------------------------------------------------------------------------
(* IP blocks: a single IP is a block of 32 bits *)

Pow2(n) == IF n = 0 THEN 1 ELSE IF n = 1 THEN 2 ELSE IF n = 2 THEN 4
           ELSE IF n = 3 THEN 8 ELSE IF n = 4 THEN 16 ELSE IF n = 5 THEN 32
           ELSE IF n = 6 THEN 64 ELSE IF n = 7 THEN 128 ELSE 256

OctetBits(bits, i) ==
    LET k == bits - 8 * (i - 1) IN IF k < 0 THEN 0 ELSE IF k > 8 THEN 8 ELSE k

(* The comparison of the entry with the address as written, prefix length *)
(* left aside.                                                             *)
ipInBlock_exact(block, ip) == block.addr = ip

ipInBlock(block, ip) ==
    \A i \in 1..4 :
        (ip[i] \div Pow2(8 - OctetBits(block.bits, i)))
            = (block.addr[i] \div Pow2(8 - OctetBits(block.bits, i)))

RECURSIVE ipInAny(_, _)
ipInAny(list, ip) ==
    IF list = <<>> THEN FALSE
    ELSE IF ipInBlock(Head(list), ip) THEN TRUE
    ELSE ipInAny(Tail(list), ip)

matchIPPair(positive, negative, ip) ==
    /\ positive = <<>> \/ ipInAny(positive, ip)
    /\ negative = <<>> \/ ~ipInAny(negative, ip)

----------------------------------------------------------------------------
(* Source, Operation and Condition *)

NoSource ==
    [Principals |-> <<>>, NotPrincipals |-> <<>>,
     RequestPrincipals |-> <<>>, NotRequestPrincipals |-> <<>>,
     Namespaces |-> <<>>, NotNamespaces |-> <<>>,
     IPBlocks |-> <<>>, NotIPBlocks |-> <<>>]

NoOperation ==
    [Hosts |-> <<>>, NotHosts |-> <<>>, Ports |-> <<>>, NotPorts |-> <<>>,
     Methods |-> <<>>, NotMethods |-> <<>>, Paths |-> <<>>, NotPaths |-> <<>>]

(* Fields in the source are ANDed together. *)
matchSource_anyField(src, a) ==
    \/ matchPair(src.Principals, src.NotPrincipals, a.principal)
    \/ matchPair(src.RequestPrincipals, src.NotRequestPrincipals, a.requestPrincipal)
    \/ matchPair(src.Namespaces, src.NotNamespaces, a.namespace)
    \/ matchIPPair(src.IPBlocks, src.NotIPBlocks, a.sourceIP)

matchSource(src, a) ==
    /\ matchPair(src.Principals, src.NotPrincipals, a.principal)
    /\ matchPair(src.RequestPrincipals, src.NotRequestPrincipals, a.requestPrincipal)
    /\ matchPair(src.Namespaces, src.NotNamespaces, a.namespace)
    /\ matchIPPair(src.IPBlocks, src.NotIPBlocks, a.sourceIP)

(* Fields in the operation are ANDed together. *)
matchOperation(op, a) ==
    /\ matchPair(op.Hosts, op.NotHosts, a.host)
    /\ matchPair(op.Ports, op.NotPorts, a.port)
    /\ matchPair(op.Methods, op.NotMethods, a.method)
    /\ matchPair(op.Paths, op.NotPaths, a.path)

(* The values of the attribute named key; none when the key is absent. *)
attrValues(a, key) == IF key \in DOMAIN a.named THEN a.named[key] ELSE {}

matchCondition_absentPasses(c, a) ==
    LET vals == attrValues(a, c.Key) IN
    \/ c.Key \notin DOMAIN a.named
    \/ /\ c.Values = <<>> \/ \E v \in vals : matchAny(c.Values, v)
       /\ c.NotValues = <<>> \/ ~\E v \in vals : matchAny(c.NotValues, v)

matchCondition(c, a) ==
    LET vals == attrValues(a, c.Key) IN
    /\ c.Values = <<>> \/ \E v \in vals : matchAny(c.Values, v)
    /\ c.NotValues = <<>> \/ ~\E v \in vals : matchAny(c.NotValues, v)

----------------------------------------------------------------------------
(* Rule *)

EmptyRule == [From |-> <<>>, To |-> <<>>, When |-> <<>>]

(* A RuleFrom whose Source pointer is nil constrains nothing. *)
matchRuleFrom(entry, a) ==
    IF entry.Source = <<>> THEN TRUE ELSE matchSource(entry.Source[1], a)

matchRuleTo(entry, a) ==
    IF entry.Operation = <<>> THEN TRUE ELSE matchOperation(entry.Operation[1], a)

RECURSIVE anySource(_, _)
anySource(from, a) ==
    IF from = <<>> THEN FALSE
    ELSE IF matchRuleFrom(Head(from), a) THEN TRUE
    ELSE anySource(Tail(from), a)

RECURSIVE anyOperation(_, _)
anyOperation(to, a) ==
    IF to = <<>> THEN FALSE
    ELSE IF matchRuleTo(Head(to), a) THEN TRUE
    ELSE anyOperation(Tail(to), a)

RECURSIVE allConditions(_, _)
allConditions(when, a) ==
    IF when = <<>> THEN TRUE
    ELSE IF ~matchCondition(Head(when), a) THEN FALSE
    ELSE allConditions(Tail(when), a)

RECURSIVE anyCondition(_, _)
anyCondition(when, a) ==
    IF when = <<>> THEN FALSE
    ELSE IF matchCondition(Head(when), a) THEN TRUE
    ELSE anyCondition(Tail(when), a)

(* from: if not set, any source is allowed. *)
fromMatch_emptyNever(r, a) == anySource(r.From, a)

fromMatch_allSources(r, a) ==
    \A i \in 1..Len(r.From) : matchRuleFrom(r.From[i], a)

fromMatch(r, a) == IF r.From = <<>> THEN TRUE ELSE anySource(r.From, a)

(* to: if not set, any operation is allowed. *)
toMatch_firstOnly(r, a) == IF r.To = <<>> THEN TRUE ELSE matchRuleTo(r.To[1], a)

toMatch(r, a) == IF r.To = <<>> THEN TRUE ELSE anyOperation(r.To, a)

(* when: if not set, any condition is allowed; the conditions are          *)
(* additional required attributes, each of which has to hold.              *)
whenMatch_anyCondition(r, a) ==
    IF r.When = <<>> THEN TRUE ELSE anyCondition(r.When, a)

whenMatch(r, a) == IF r.When = <<>> THEN TRUE ELSE allConditions(r.When, a)

matchRule_ignoreTo(r, a) == fromMatch(r, a) /\ whenMatch(r, a)

matchRule(r, a) == fromMatch(r, a) /\ toMatch(r, a) /\ whenMatch(r, a)

----------------------------------------------------------------------------
(* AuthorizationPolicySpec and the decision *)

(* The default action is ALLOW. *)
effectiveAction_noDefault(p) == p.Action

effectiveAction(p) ==
    IF p.Action = ActionUnset THEN AuthorizationPolicyActionAllow ELSE p.Action

(* A match occurs when at least one rule matches the request; if the rules *)
(* are not set, the match never occurs.                                    *)
RECURSIVE anyRule(_, _)
anyRule(rules, a) ==
    IF rules = <<>> THEN FALSE
    ELSE IF matchRule(Head(rules), a) THEN TRUE
    ELSE anyRule(Tail(rules), a)

policyMatches_emptyAlways(p, a) == p.Rules = <<>> \/ anyRule(p.Rules, a)

policyMatches_allRules(p, a) ==
    p.Rules # <<>> /\ \A j \in 1..Len(p.Rules) : matchRule(p.Rules[j], a)

policyMatches(p, a) == anyRule(p.Rules, a)

(* A selector that is not set applies to all workloads; otherwise every    *)
(* label of the selector is a label of the workload.                       *)
selects_anyLabel(selector, labels) ==
    \/ selector = <<>>
    \/ \E k \in DOMAIN selector[1].MatchLabels :
          k \in DOMAIN labels /\ labels[k] = selector[1].MatchLabels[k]

selects(selector, labels) ==
    \/ selector = <<>>
    \/ \A k \in DOMAIN selector[1].MatchLabels :
          k \in DOMAIN labels /\ labels[k] = selector[1].MatchLabels[k]

RECURSIVE selectPolicies(_, _)
selectPolicies(ps, labels) ==
    IF ps = <<>> THEN <<>>
    ELSE (IF selects(Head(ps).Selector, labels) THEN <<Head(ps)>> ELSE <<>>)
             \o selectPolicies(Tail(ps), labels)

RECURSIVE withAction(_, _)
withAction(ps, action) ==
    IF ps = <<>> THEN <<>>
    ELSE (IF effectiveAction(Head(ps)) = action THEN <<Head(ps)>> ELSE <<>>)
             \o withAction(Tail(ps), action)

RECURSIVE anyPolicy(_, _)
anyPolicy(ps, a) ==
    IF ps = <<>> THEN FALSE
    ELSE IF policyMatches(Head(ps), a) THEN TRUE
    ELSE anyPolicy(Tail(ps), a)

decide_allowFirst(ps, labels, a) ==
    LET selected == selectPolicies(ps, labels)
        deny == withAction(selected, AuthorizationPolicyActionDeny)
        allow == withAction(selected, AuthorizationPolicyActionAllow)
    IN  IF allow = <<>> /\ ~anyPolicy(deny, a) THEN "ALLOW"
        ELSE IF anyPolicy(allow, a) THEN "ALLOW"
        ELSE "DENY"

decide_denyWithoutAllow(ps, labels, a) ==
    LET selected == selectPolicies(ps, labels)
        deny == withAction(selected, AuthorizationPolicyActionDeny)
        allow == withAction(selected, AuthorizationPolicyActionAllow)
    IN  IF anyPolicy(deny, a) THEN "DENY"
        ELSE IF anyPolicy(allow, a) THEN "ALLOW"
        ELSE "DENY"

decide_allowWithAllow(ps, labels, a) ==
    LET selected == selectPolicies(ps, labels)
        deny == withAction(selected, AuthorizationPolicyActionDeny)
    IN  IF anyPolicy(deny, a) THEN "DENY" ELSE "ALLOW"

decide_everyAllow(ps, labels, a) ==
    LET selected == selectPolicies(ps, labels)
        deny == withAction(selected, AuthorizationPolicyActionDeny)
        allow == withAction(selected, AuthorizationPolicyActionAllow)
    IN  IF anyPolicy(deny, a) THEN "DENY"
        ELSE IF allow = <<>> THEN "ALLOW"
        ELSE IF \A i \in 1..Len(allow) : policyMatches(allow[i], a) THEN "ALLOW"
        ELSE "DENY"

(* 1. If there are any DENY policies that match the request, deny the      *)
(*    request.                                                             *)
(* 2. If there are no ALLOW policies for the workload, allow the request.  *)
(* 3. If any of the ALLOW policies match the request, allow the request.   *)
(* 4. Deny the request.                                                    *)
decide(ps, labels, a) ==
    LET selected == selectPolicies(ps, labels)
        deny == withAction(selected, AuthorizationPolicyActionDeny)
        allow == withAction(selected, AuthorizationPolicyActionAllow)
    IN  IF anyPolicy(deny, a) THEN "DENY"
        ELSE IF allow = <<>> THEN "ALLOW"
        ELSE IF anyPolicy(allow, a) THEN "ALLOW"
        ELSE "DENY"

----------------------------------------------------------------------------
(* The requests, rules and policies the model ranges over *)

NoAttrs ==
    [principal |-> empty, requestPrincipal |-> empty, namespace |-> empty,
     sourceIP |-> <<0, 0, 0, 0>>, host |-> empty, port |-> empty,
     method |-> empty, path |-> empty, named |-> <<>>]

NamedSpace ==
    { <<>>,
      [k \in {IssKey} |-> {google}],
      [k \in {IssKey} |-> {google, other}] }

OriginSpace ==
    { <<dev, <<1, 2, 3, 4>> >>, <<prod, <<1, 2, 3, 4>> >>, <<prod, <<1, 2, 4, 4>> >> }

AttrsSpace ==
    { [principal |-> admin, requestPrincipal |-> empty, namespace |-> o[1],
       sourceIP |-> o[2], host |-> host, port |-> port80,
       method |-> m, path |-> pathInfo, named |-> nm] :
        o \in OriginSpace, m \in {POST, GET}, nm \in NamedSpace }

(* The requests put to decide: the ones from the first address whose       *)
(* issuer claim is absent or single-valued.                                *)
RequestSpace ==
    { a \in AttrsSpace :
        a.sourceIP = <<1, 2, 3, 4>> /\ Cardinality(attrValues(a, IssKey)) <= 1 }

SourceNsDev == [NoSource EXCEPT !.Namespaces = <<dev>>]

SourceProNotIP ==
    [NoSource EXCEPT !.Namespaces = <<proStar>>,
                     !.NotIPBlocks = << [addr |-> <<1, 2, 3, 0>>, bits |-> 24] >>]

OperationPost == [NoOperation EXCEPT !.Methods = <<POST>>]

OperationG == [NoOperation EXCEPT !.Methods = <<GStar>>, !.NotPaths = <<admin>>]

ConditionIssGoogle == [Key |-> IssKey, Values |-> <<google>>, NotValues |-> <<>>]

ConditionIssNotOther == [Key |-> IssKey, Values |-> <<>>, NotValues |-> <<other>>]

FromSpace ==
    { [Source |-> <<>>], [Source |-> <<SourceNsDev>>], [Source |-> <<SourceProNotIP>>] }

ToSpace == { [Operation |-> <<OperationPost>>], [Operation |-> <<OperationG>>] }

WhenSpace == { ConditionIssGoogle, ConditionIssNotOther }

SeqsUpTo(S, n) == UNION { [1..k -> S] : k \in 0..n }

RuleSpace ==
    { [From |-> f, To |-> t, When |-> w] :
        f \in SeqsUpTo(FromSpace, MaxFrom),
        t \in SeqsUpTo(ToSpace, MaxTo),
        w \in SeqsUpTo(WhenSpace, MaxWhen) }

DevPostRule ==
    [From |-> << [Source |-> <<SourceNsDev>>] >>,
     To |-> << [Operation |-> <<OperationPost>>] >>,
     When |-> <<>>]

RulesSpace == { <<>>, <<EmptyRule>>, <<DevPostRule>> }

SelectorSpace == { <<>>, << [MatchLabels |-> [k \in {"app"} |-> "httpbin"]] >> }

LabelsSpace ==
    { [k \in {"app", "version"} |-> IF k = "app" THEN "httpbin" ELSE "v1"],
      [k \in {"app"} |-> "sleep"] }

PolicySpace ==
    { [Selector |-> s, Rules |-> rs, Action |-> act] :
        s \in SelectorSpace, rs \in RulesSpace,
        act \in {ActionUnset, AuthorizationPolicyActionAllow,
                 AuthorizationPolicyActionDeny} }

----------------------------------------------------------------------------
(* The policy evaluator: a snapshot of policies, a workload, and decide    *)
(* applied to one request after another.                                   *)

Init ==
    /\ policies \in SeqsUpTo(PolicySpace, MaxPolicies)
    /\ workload \in LabelsSpace
    /\ attrs = NoAttrs
    /\ decision = "NONE"
    /\ rule = EmptyRule
    /\ matched = FALSE
    /\ phase = "init"
    /\ NoOthers

Decide(a) ==
    /\ attrs' = a
    /\ decision' = decide(policies, workload, a)
    /\ phase' = "decided"
    /\ UNCHANGED <<policies, workload, rule, matched, others>>

Next == \E a \in RequestSpace : Decide(a)

Spec == Init /\ [][Next]_vars

----------------------------------------------------------------------------
(* The rule matcher: matchRule applied to a Rule and a request.            *)

InitRule ==
    /\ policies = <<>>
    /\ workload = <<>>
    /\ attrs \in AttrsSpace
    /\ decision = "NONE"
    /\ rule \in RuleSpace
    /\ matched = FALSE
    /\ phase = "init"
    /\ NoOthers

MatchRule ==
    /\ phase = "init"
    /\ matched' = matchRule(rule, attrs)
    /\ phase' = "matched"
    /\ UNCHANGED <<policies, workload, attrs, decision, rule, others>>

NextRule == MatchRule

SpecRule == InitRule /\ [][NextRule]_vars

----------------------------------------------------------------------------
(* The policy matcher: policyMatches applied to one policy and a request   *)
(* that may carry a request principal.                                     *)

CredentialSpace ==
    { [principal |-> admin, requestPrincipal |-> rp, namespace |-> ns,
       sourceIP |-> <<1, 2, 3, 4>>, host |-> host, port |-> port80,
       method |-> m, path |-> pth, named |-> <<>>] :
        rp \in {empty, issSub}, ns \in {dev, prod}, m \in {POST, GET},
        pth \in {healthz, pathInfo} }

RequestPrincipalRule ==
    [From |-> << [Source |-> << [NoSource EXCEPT !.RequestPrincipals = << <<Star>> >>] >>] >>,
     To |-> <<>>,
     When |-> <<>>]

HealthzRule ==
    [From |-> <<>>,
     To |-> << [Operation |-> << [NoOperation EXCEPT !.Paths = <<healthz>>] >>] >>,
     When |-> <<>>]

PolicyRuleSpace == { EmptyRule, DevPostRule, RequestPrincipalRule, HealthzRule }

InitPolicy ==
    /\ policies \in
          { << [Selector |-> <<>>, Rules |-> rs, Action |-> ActionUnset] >> :
                rs \in SeqsUpTo(PolicyRuleSpace, MaxRules) }
    /\ workload = <<>>
    /\ attrs \in CredentialSpace
    /\ decision = "NONE"
    /\ rule = EmptyRule
    /\ matched = FALSE
    /\ phase = "init"
    /\ NoOthers

MatchPolicy ==
    /\ phase = "init"
    /\ matched' = policyMatches(policies[1], attrs)
    /\ phase' = "matched"
    /\ UNCHANGED <<policies, workload, attrs, decision, rule, others>>

NextPolicy == MatchPolicy

SpecPolicy == InitPolicy /\ [][NextPolicy]_vars

----------------------------------------------------------------------------
(* The string matcher: match applied to a pattern and a value.             *)

Alphabet == {"a", "b", Star}

StringSpace == SeqsUpTo(Alphabet, MaxLen)

InitIdle ==
    /\ policies = <<>>
    /\ workload = <<>>
    /\ attrs = NoAttrs
    /\ decision = "NONE"
    /\ rule = EmptyRule
    /\ matched = FALSE
    /\ phase = "init"
    /\ documents = <<>>
    /\ calls = <<>>
    /\ history = {}
    /\ result = <<>>

InitMatch ==
    /\ InitIdle
    /\ arg \in [pattern : StringSpace, value : StringSpace]

Match ==
    /\ phase = "init"
    /\ matched' = match(arg.pattern, arg.value)
    /\ phase' = "matched"
    /\ UNCHANGED <<policies, workload, attrs, decision, rule, others>>

NextMatch == Match

SpecMatch == InitMatch /\ [][NextMatch]_vars

----------------------------------------------------------------------------
(* The list-pair matcher: matchPair applied to a positive list, a negative *)
(* list and a value.                                                       *)

PatternSpace == { <<"a">>, <<"b">>, <<"a", Star>> }

ValueSpace == { <<>>, <<"a">>, <<"b">>, <<"a", "b">> }

InitPair ==
    /\ InitIdle
    /\ arg \in [positive : SeqsUpTo(PatternSpace, MaxList),
                negative : SeqsUpTo(PatternSpace, MaxList),
                value : ValueSpace]

MatchPair ==
    /\ phase = "init"
    /\ matched' = matchPair(arg.positive, arg.negative, arg.value)
    /\ phase' = "matched"
    /\ UNCHANGED <<policies, workload, attrs, decision, rule, others>>

NextPair == MatchPair

SpecPair == InitPair /\ [][NextPair]_vars

----------------------------------------------------------------------------
(* The Source and Operation matchers: matchSource or matchOperation        *)
(* applied to one Source or Operation and a request.                       *)

SingleIP(a, b, c, d) == [addr |-> <<a, b, c, d>>, bits |-> 32]

SourceSpace ==
    { [Principals |-> p, NotPrincipals |-> np,
       RequestPrincipals |-> rp, NotRequestPrincipals |-> nrp,
       Namespaces |-> ns, NotNamespaces |-> nns,
       IPBlocks |-> ip, NotIPBlocks |-> nip] :
        p \in {<<>>, <<admin, dev>>}, np \in {<<>>, <<dev>>},
        rp \in {<<>>, << <<Star>> >>}, nrp \in {<<>>, <<issSub>>},
        ns \in {<<>>, <<prod, test>>}, nns \in {<<>>, <<proStar>>},
        ip \in {<<>>, << [addr |-> <<1, 2, 3, 0>>, bits |-> 24] >>},
        nip \in {<<>>, << SingleIP(1, 2, 3, 4) >>} }

OperationSpace ==
    { [Hosts |-> h, NotHosts |-> nh, Ports |-> pt, NotPorts |-> npt,
       Methods |-> m, NotMethods |-> nm, Paths |-> pth, NotPaths |-> npth] :
        h \in {<<>>, <<starExampleCom>>}, nh \in {<<>>, <<aExampleCom>>},
        pt \in {<<>>, <<port80>>}, npt \in {<<>>, <<port8080>>},
        m \in {<<>>, <<GET, HEAD>>}, nm \in {<<>>, <<GStar>>},
        pth \in {<<>>, <<pathInfo, healthz>>}, npth \in {<<>>, <<adminStar>>} }

SourceAttrsSpace ==
    { [principal |-> p, requestPrincipal |-> rp, namespace |-> ns,
       sourceIP |-> ip, host |-> host, port |-> port80,
       method |-> GET, path |-> pathInfo, named |-> <<>>] :
        p \in {admin, dev, other}, rp \in {empty, issSub},
        ns \in {prod, test, dev},
        ip \in {<<1, 2, 3, 4>>, <<1, 2, 3, 5>>, <<1, 2, 4, 4>>} }

OperationAttrsSpace ==
    { [principal |-> admin, requestPrincipal |-> empty, namespace |-> prod,
       sourceIP |-> <<1, 2, 3, 4>>, host |-> h, port |-> pt,
       method |-> m, path |-> pth, named |-> <<>>] :
        h \in {aExampleCom, exampleOrg}, pt \in {port80, port8080},
        m \in {GET, HEAD, POST}, pth \in {adminUsers, pathInfo, healthz} }

InitFields ==
    /\ InitIdle
    /\ arg \in [kind : {"source"}, src : SourceSpace]
                \cup [kind : {"operation"}, op : OperationSpace]

ChooseRequest(a) ==
    /\ phase = "init"
    /\ attrs' = a
    /\ phase' = "request"
    /\ UNCHANGED <<policies, workload, decision, rule, matched, others>>

MatchSource ==
    /\ phase = "request"
    /\ arg.kind = "source"
    /\ matched' = matchSource(arg.src, attrs)
    /\ phase' = "source"
    /\ UNCHANGED <<policies, workload, attrs, decision, rule, others>>

MatchOperation ==
    /\ phase = "request"
    /\ arg.kind = "operation"
    /\ matched' = matchOperation(arg.op, attrs)
    /\ phase' = "operation"
    /\ UNCHANGED <<policies, workload, attrs, decision, rule, others>>

NextFields ==
    \/ \E a \in SourceAttrsSpace : arg.kind = "source" /\ ChooseRequest(a)
    \/ \E a \in OperationAttrsSpace : arg.kind = "operation" /\ ChooseRequest(a)
    \/ MatchSource
    \/ MatchOperation

SpecFields == InitFields /\ [][NextFields]_vars

----------------------------------------------------------------------------
(* The Condition matcher: matchCondition applied to one Condition and a    *)
(* request whose named attribute is absent, single- or multi-valued.       *)

ConditionSpace ==
    [Key : {IssKey, AudKey},
     Values : SeqsUpTo({google, gooStar, other}, MaxList),
     NotValues : SeqsUpTo({google, gooStar, other}, MaxList)]

ConditionAttrsSpace ==
    { [principal |-> admin, requestPrincipal |-> empty, namespace |-> prod,
       sourceIP |-> <<1, 2, 3, 4>>, host |-> host, port |-> port80,
       method |-> GET, path |-> pathInfo, named |-> nm] :
        nm \in { <<>>,
                 [k \in {IssKey} |-> {google}],
                 [k \in {IssKey} |-> {other}],
                 [k \in {IssKey} |-> {google, other}],
                 [k \in {IssKey, AudKey} |-> IF k = IssKey THEN {google} ELSE {other}] } }

InitCondition ==
    /\ InitIdle
    /\ arg \in [c : ConditionSpace, a : ConditionAttrsSpace]

MatchCondition ==
    /\ phase = "init"
    /\ attrs' = arg.a
    /\ matched' = matchCondition(arg.c, arg.a)
    /\ phase' = "matched"
    /\ UNCHANGED <<policies, workload, decision, rule, others>>

NextCondition == MatchCondition

SpecCondition == InitCondition /\ [][NextCondition]_vars

----------------------------------------------------------------------------
(* The policy evaluator on requests with and without a request principal:  *)
(* decide against snapshots that hold the policy "from requestPrincipals   *)
(* [*]" of the RequestAuthentication examples.                             *)

AuthnPolicySpace ==
    { [Selector |-> <<>>, Rules |-> rs, Action |-> act] :
        rs \in { <<>>, <<EmptyRule>>, <<RequestPrincipalRule>> },
        act \in {ActionUnset, AuthorizationPolicyActionAllow,
                 AuthorizationPolicyActionDeny} }

InitAuthn ==
    /\ policies \in SeqsUpTo(AuthnPolicySpace, MaxPolicies)
    /\ workload \in LabelsSpace
    /\ attrs = NoAttrs
    /\ decision = "NONE"
    /\ rule = EmptyRule
    /\ matched = FALSE
    /\ phase = "init"
    /\ NoOthers

NextAuthn == \E a \in CredentialSpace : Decide(a)

SpecAuthn == InitAuthn /\ [][NextAuthn]_vars

----------------------------------------------------------------------------
(* The policy scope: snapshots whose policies carry selectors of zero, one *)
(* and two labels, evaluated for workloads that carry all, some or none of *)
(* those labels.                                                           *)

AppHttpbin == [k \in {"app"} |-> "httpbin"]

VersionV1 == [k \in {"version"} |-> "v1"]

AppHttpbinVersionV1 == [k \in {"app", "version"} |-> IF k = "app" THEN "httpbin" ELSE "v1"]

ScopeSelectorSpace ==
    { <<>>, << [MatchLabels |-> AppHttpbin] >>, << [MatchLabels |-> VersionV1] >>,
      << [MatchLabels |-> AppHttpbinVersionV1] >> }

WorkloadSpace ==
    { AppHttpbin,
      AppHttpbinVersionV1,
      [k \in {"app", "version"} |-> IF k = "app" THEN "httpbin" ELSE "v2"],
      [k \in {"app", "version", "tier"} |->
          IF k = "app" THEN "sleep" ELSE IF k = "version" THEN "v1" ELSE "web"] }

ScopePolicySpace ==
    { [Selector |-> s, Rules |-> rs, Action |-> act] :
        s \in ScopeSelectorSpace, rs \in { <<EmptyRule>>, <<DevPostRule>> },
        act \in {AuthorizationPolicyActionAllow, AuthorizationPolicyActionDeny} }

ScopeRequestSpace ==
    { a \in RequestSpace : a.principal = admin /\ a.named = <<>> }

InitScope ==
    /\ policies \in SeqsUpTo(ScopePolicySpace, MaxPolicies)
    /\ workload \in WorkloadSpace
    /\ attrs = NoAttrs
    /\ decision = "NONE"
    /\ rule = EmptyRule
    /\ matched = FALSE
    /\ phase = "init"
    /\ NoOthers

NextScope == \E a \in ScopeRequestSpace : Decide(a)

SpecScope == InitScope /\ [][NextScope]_vars

----------------------------------------------------------------------------
(* Snapshot replacement: the control plane publishes a new policy set by   *)
(* swapping the snapshot pointer while callers evaluate. A call captures   *)
(* the pointer when it begins, reads the policies of the captured snapshot *)
(* one by one, and decides over what it read.                              *)

DevPostDenyPolicy ==
    [Selector |-> <<>>, Rules |-> <<DevPostRule>>,
     Action |-> AuthorizationPolicyActionDeny]

AllowAllPolicy ==
    [Selector |-> <<>>, Rules |-> <<EmptyRule>>, Action |-> AuthorizationPolicyActionAllow]

DenyAllPolicy ==
    [Selector |-> <<>>, Rules |-> <<EmptyRule>>, Action |-> AuthorizationPolicyActionDeny]

SnapshotSpace ==
    { <<AllowAllPolicy>>,
      <<AllowAllPolicy, DenyAllPolicy>>,
      <<DenyAllPolicy, AllowAllPolicy>>,
      <<DevPostDenyPolicy, AllowAllPolicy>> }

Callers == {"c1", "c2"}

SnapRequestSpace ==
    { a \in RequestSpace :
        /\ a.principal = admin /\ a.named = <<>> /\ a.path = pathInfo
        /\ (a.namespace = dev <=> a.method = POST) }

IdleCall ==
    [state |-> "idle", snap |-> <<>>, cursor |-> 0, seen |-> <<>>,
     attrs |-> NoAttrs, from |-> 0, upto |-> 0, result |-> "NONE"]

(* The k-th policy a call reads: the one of the snapshot it captured. *)
readPolicy_live(call, live, k) == IF k <= Len(live) THEN live[k] ELSE call.snap[k]

readPolicy(call, live, k) == call.snap[k]

InitSnap ==
    /\ policies \in SnapshotSpace
    /\ workload = AppHttpbin
    /\ attrs = NoAttrs
    /\ decision = "NONE"
    /\ rule = EmptyRule
    /\ matched = FALSE
    /\ phase = "init"
    /\ arg = <<>>
    /\ documents = <<>>
    /\ calls = [c \in Callers |-> IdleCall]
    /\ history = <<policies>>
    /\ result = <<>>

Replace(new) ==
    /\ Len(history) <= MaxReplace
    /\ new # policies
    /\ policies' = new
    /\ history' = Append(history, new)
    /\ UNCHANGED <<workload, attrs, decision, rule, matched, phase, arg, documents, calls, result>>

Begin(c, a) ==
    /\ calls[c].state = "idle"
    /\ calls' = [calls EXCEPT ![c] =
                    [IdleCall EXCEPT !.state = "reading", !.snap = policies,
                                     !.cursor = 1, !.attrs = a,
                                     !.from = Len(history)]]
    /\ UNCHANGED <<policies, workload, attrs, decision, rule, matched, phase,
                   arg, documents, history, result>>

ReadNext(c) ==
    /\ calls[c].state = "reading"
    /\ calls[c].cursor <= Len(calls[c].snap)
    /\ calls' = [calls EXCEPT
                    ![c].seen = Append(@, readPolicy(calls[c], policies, calls[c].cursor)),
                    ![c].cursor = @ + 1]
    /\ UNCHANGED <<policies, workload, attrs, decision, rule, matched, phase,
                   arg, documents, history, result>>

Finish(c) ==
    /\ calls[c].state = "reading"
    /\ calls[c].cursor > Len(calls[c].snap)
    /\ calls' = [calls EXCEPT
                    ![c].state = "done",
                    ![c].upto = Len(history),
                    ![c].result = decide(calls[c].seen, workload, calls[c].attrs)]
    /\ attrs' = calls[c].attrs
    /\ decision' = decide(calls[c].seen, workload, calls[c].attrs)
    /\ phase' = "decided"
    /\ UNCHANGED <<policies, workload, rule, matched, arg, documents, history, result>>

NextSnap ==
    \/ \E new \in SnapshotSpace : Replace(new)
    \/ \E c \in Callers, a \in SnapRequestSpace : Begin(c, a)
    \/ \E c \in Callers : ReadNext(c)
    \/ \E c \in Callers : Finish(c)

SpecSnap == InitSnap /\ [][NextSnap]_vars

----------------------------------------------------------------------------
(* Loading: the control plane hands over policy documents; the loader      *)
(* validates each document, parses the well-formed ones and publishes them *)
(* as the active snapshot. In a document an IP block is still text: the    *)
(* dot-separated numbers of the address and the optional number after "/". *)

AuthorizationPolicyActionAudit == "AUDIT"

Written(octets, prefix) == [octets |-> octets, prefix |-> prefix]

validIPBlock(w) ==
    /\ Len(w.octets) = 4
    /\ \A i \in 1..Len(w.octets) : w.octets[i] \in 0..255
    /\ Len(w.prefix) <= 1
    /\ \A i \in 1..Len(w.prefix) : w.prefix[i] \in 0..32

(* A single IP is the block of prefix length 32 that holds only it. *)
parseIPBlock(w) ==
    [addr |-> w.octets, bits |-> IF w.prefix = <<>> THEN 32 ELSE w.prefix[1]]

validCondition(c) == c.Values # <<>> \/ c.NotValues # <<>>

validSource(src) ==
    /\ \A i \in 1..Len(src.IPBlocks) : validIPBlock(src.IPBlocks[i])
    /\ \A i \in 1..Len(src.NotIPBlocks) : validIPBlock(src.NotIPBlocks[i])

validRule(r) ==
    /\ \A i \in 1..Len(r.From) :
          r.From[i].Source # <<>> => validSource(r.From[i].Source[1])
    /\ \A i \in 1..Len(r.When) : validCondition(r.When[i])

validAction(action) ==
    action \in {ActionUnset, AuthorizationPolicyActionAllow, AuthorizationPolicyActionDeny}

validDocument(d) ==
    /\ validAction(d.Action)
    /\ \A i \in 1..Len(d.Rules) : validRule(d.Rules[i])

parseBlocks(list) == [i \in 1..Len(list) |-> parseIPBlock(list[i])]

parseSource(src) ==
    [src EXCEPT !.IPBlocks = parseBlocks(@), !.NotIPBlocks = parseBlocks(@)]

parseRule(r) ==
    [r EXCEPT !.From =
        [i \in 1..Len(@) |->
            IF @[i].Source = <<>> THEN @[i]
            ELSE [Source |-> << parseSource(@[i].Source[1]) >>]]]

parseDocument(d) ==
    [d EXCEPT !.Rules = [i \in 1..Len(@) |-> parseRule(@[i])]]

RECURSIVE validRules(_)
validRules(rs) ==
    IF rs = <<>> THEN <<>>
    ELSE (IF validRule(Head(rs)) THEN <<Head(rs)>> ELSE <<>>) \o validRules(Tail(rs))

RECURSIVE load_dropBadRules(_)
load_dropBadRules(docs) ==
    IF docs = <<>> THEN <<>>
    ELSE (IF validAction(Head(docs).Action)
          THEN << parseDocument([Head(docs) EXCEPT !.Rules = validRules(@)]) >>
          ELSE <<>>)
             \o load_dropBadRules(Tail(docs))

RECURSIVE load_defaultAction(_)
load_defaultAction(docs) ==
    IF docs = <<>> THEN <<>>
    ELSE (IF \A i \in 1..Len(Head(docs).Rules) : validRule(Head(docs).Rules[i])
          THEN << parseDocument([Head(docs) EXCEPT
                      !.Action = IF validAction(@) THEN @ ELSE ActionUnset]) >>
          ELSE <<>>)
             \o load_defaultAction(Tail(docs))

RECURSIVE load_failClosed(_)
load_failClosed(docs) ==
    IF docs = <<>> THEN <<>>
    ELSE (IF validDocument(Head(docs)) THEN << parseDocument(Head(docs)) >>
          ELSE IF validAction(Head(docs).Action)
               THEN << [Selector |-> Head(docs).Selector, Rules |-> <<>>,
                        Action |-> Head(docs).Action] >>
               ELSE <<>>)
             \o load_failClosed(Tail(docs))

(* The active snapshot: the well-formed documents, parsed, in their order. *)
RECURSIVE load(_)
load(docs) ==
    IF docs = <<>> THEN <<>>
    ELSE (IF validDocument(Head(docs)) THEN << parseDocument(Head(docs)) >> ELSE <<>>)
             \o load(Tail(docs))

(* The documents reported back to the control plane as rejected. *)
rejected(docs) == { i \in 1..Len(docs) : ~validDocument(docs[i]) }

RuleFromBlock(w) ==
    [From |-> << [Source |-> << [NoSource EXCEPT !.IPBlocks = <<w>>] >>] >>,
     To |-> <<>>, When |-> <<>>]

RuleWhen(c) == [From |-> <<>>, To |-> <<>>, When |-> <<c>>]

ConditionUnset == [Key |-> IssKey, Values |-> <<>>, NotValues |-> <<>>]

DocumentRulesSpace ==
    { <<EmptyRule>>,
      <<DevPostRule>>,
      << RuleFromBlock(Written(<<1, 2, 3, 0>>, <<24>>)), RuleWhen(ConditionIssGoogle) >>,
      << RuleFromBlock(Written(<<1, 2, 3, 4>>, <<>>)) >>,
      << EmptyRule, RuleFromBlock(Written(<<1, 2, 3, 0>>, <<33>>)) >>,
      << RuleFromBlock(Written(<<1, 2, 3>>, <<>>)), DevPostRule >>,
      << DevPostRule, RuleWhen(ConditionUnset) >> }

DocumentSpace ==
    { [Selector |-> <<>>, Rules |-> rs, Action |-> act] :
        rs \in DocumentRulesSpace,
        act \in {AuthorizationPolicyActionAllow, AuthorizationPolicyActionDeny,
                 AuthorizationPolicyActionAudit} }

LoadRequestSpace == { a \in RequestSpace : a.principal = admin /\ a.path = pathInfo }

InitLoad ==
    /\ policies = <<>>
    /\ workload = AppHttpbin
    /\ attrs = NoAttrs
    /\ decision = "NONE"
    /\ rule = EmptyRule
    /\ matched = FALSE
    /\ phase = "init"
    /\ arg = <<>>
    /\ documents \in SeqsUpTo(DocumentSpace, MaxPolicies)
    /\ calls = <<>>
    /\ history = {}
    /\ result = <<>>

Load ==
    /\ phase = "init"
    /\ policies' = load(documents)
    /\ history' = rejected(documents)
    /\ phase' = "loaded"
    /\ UNCHANGED <<workload, attrs, decision, rule, matched, arg, documents, calls, result>>

DecideLoaded(a) ==
    /\ phase # "init"
    /\ Decide(a)

NextLoad ==
    \/ Load
    \/ \E a \in LoadRequestSpace : DecideLoaded(a)

SpecLoad == InitLoad /\ [][NextLoad]_vars

----------------------------------------------------------------------------
(* The wire format of the WorkloadGroup probe. A JSON object is a function *)
(* from keys to values; a key is a sequence of one-character strings, so   *)
(* that the decoder's comparison of keys is computed. For every field      *)
(* there is the key of its json tag and the key the documented example of  *)
(* WorkloadGroup writes.                                                   *)

InitialDelaySecondsTag ==
    <<"i", "n", "i", "t", "i", "a", "l", "_", "d", "e", "l", "a", "y", "_",
      "s", "e", "c", "o", "n", "d", "s">>
TimeoutSecondsTag ==
    <<"t", "i", "m", "e", "o", "u", "t", "_", "s", "e", "c", "o", "n", "d",
      "s">>
PeriodSecondsTag ==
    <<"p", "e", "r", "i", "o", "d", "_", "s", "e", "c", "o", "n", "d", "s">>
SuccessThresholdTag ==
    <<"s", "u", "c", "c", "e", "s", "s", "_", "t", "h", "r", "e", "s", "h",
      "o", "l", "d">>
FailureThresholdTag ==
    <<"f", "a", "i", "l", "u", "r", "e", "_", "t", "h", "r", "e", "s", "h",
      "o", "l", "d">>
HTTPGetTag == <<"h", "t", "t", "p", "_", "g", "e", "t">>
HTTPHeadersTag ==
    <<"h", "t", "t", "p", "_", "h", "e", "a", "d", "e", "r", "s">>
TCPSocketTag == <<"t", "c", "p", "_", "s", "o", "c", "k", "e", "t">>
ExecTag == <<"e", "x", "e", "c">>
PathTag == <<"p", "a", "t", "h">>
PortTag == <<"p", "o", "r", "t">>
HostTag == <<"h", "o", "s", "t">>
SchemeTag == <<"s", "c", "h", "e", "m", "e">>
NameTag == <<"n", "a", "m", "e">>
ValueTag == <<"v", "a", "l", "u", "e">>

InitialDelaySecondsDocumented ==
    <<"i", "n", "i", "t", "i", "a", "l", "D", "e", "l", "a", "y", "S", "e",
      "c", "o", "n", "d", "s">>
TimeoutSecondsDocumented ==
    <<"t", "i", "m", "e", "o", "u", "t", "S", "e", "c", "o", "n", "d", "s">>
PeriodSecondsDocumented ==
    <<"p", "e", "r", "i", "o", "d", "S", "e", "c", "o", "n", "d", "s">>
SuccessThresholdDocumented ==
    <<"s", "u", "c", "c", "e", "s", "s", "T", "h", "r", "e", "s", "h", "o",
      "l", "d">>
FailureThresholdDocumented ==
    <<"f", "a", "i", "l", "u", "r", "e", "T", "h", "r", "e", "s", "h", "o",
      "l", "d">>
HTTPGetDocumented == <<"h", "t", "t", "p", "G", "e", "t">>
HTTPHeadersDocumented ==
    <<"h", "t", "t", "p", "H", "e", "a", "d", "e", "r", "s">>

UpperCase ==
    <<"A", "B", "C", "D", "E", "F", "G", "H", "I", "J", "K", "L", "M",
      "N", "O", "P", "Q", "R", "S", "T", "U", "V", "W", "X", "Y", "Z">>

LowerCase ==
    <<"a", "b", "c", "d", "e", "f", "g", "h", "i", "j", "k", "l", "m",
      "n", "o", "p", "q", "r", "s", "t", "u", "v", "w", "x", "y", "z">>

ToLower(c) ==
    IF \E i \in 1..Len(UpperCase) : UpperCase[i] = c
    THEN LowerCase[CHOOSE i \in 1..Len(UpperCase) : UpperCase[i] = c]
    ELSE c

ToUpper(c) ==
    IF \E i \in 1..Len(LowerCase) : LowerCase[i] = c
    THEN UpperCase[CHOOSE i \in 1..Len(LowerCase) : LowerCase[i] = c]
    ELSE c

(* The decoder compares an object key with a field's tag letter by letter, *)
(* ignoring the case of the letters.                                       *)
EqualFold(k, tag) ==
    /\ Len(k) = Len(tag)
    /\ \A i \in 1..Len(k) : ToLower(k[i]) = ToLower(tag[i])

hasField(object, tag) == \E k \in DOMAIN object : EqualFold(k, tag)

(* The value an object holds for a field: that of the key equal to the tag *)
(* when there is one, otherwise that of a key equal but for case, and the  *)
(* field's zero value when the object has no such key.                     *)
fieldValue(object, tag, zero) ==
    IF tag \in DOMAIN object THEN object[tag]
    ELSE IF hasField(object, tag)
         THEN object[CHOOSE k \in DOMAIN object : EqualFold(k, tag)]
         ELSE zero

decodeHTTPHeader(object) ==
    [Name |-> fieldValue(object, NameTag, ""),
     Value |-> fieldValue(object, ValueTag, "")]

decodeHTTPHealthCheckConfig(object) ==
    [Path |-> fieldValue(object, PathTag, ""),
     Port |-> fieldValue(object, PortTag, 0),
     Host |-> fieldValue(object, HostTag, ""),
     Scheme |-> fieldValue(object, SchemeTag, ""),
     HTTPHeaders |->
        LET list == fieldValue(object, HTTPHeadersTag, <<>>)
        IN  [i \in 1..Len(list) |-> decodeHTTPHeader(list[i])]]

decodeReadinessProbe(object) ==
    [InitialDelaySeconds |-> fieldValue(object, InitialDelaySecondsTag, 0),
     TimeoutSeconds |-> fieldValue(object, TimeoutSecondsTag, 0),
     PeriodSeconds |-> fieldValue(object, PeriodSecondsTag, 0),
     SuccessThreshold |-> fieldValue(object, SuccessThresholdTag, 0),
     FailureThreshold |-> fieldValue(object, FailureThresholdTag, 0),
     HTTPGet |->
        IF hasField(object, HTTPGetTag)
        THEN << decodeHTTPHealthCheckConfig(fieldValue(object, HTTPGetTag, <<>>)) >>
        ELSE <<>>,
     TCPSocket |->
        IF hasField(object, TCPSocketTag)
        THEN << fieldValue(object, TCPSocketTag, <<>>) >> ELSE <<>>,
     Exec |->
        IF hasField(object, ExecTag)
        THEN << fieldValue(object, ExecTag, <<>>) >> ELSE <<>>]

(* The object written for a list of (tag, value, zero) entries: the fields *)
(* marked omitempty are left out when they hold their zero value.          *)
encodeFields(entries) ==
    LET kept == { i \in 1..Len(entries) : entries[i].value # entries[i].zero }
    IN  [k \in { entries[i].tag : i \in kept } |->
            entries[CHOOSE i \in kept : entries[i].tag = k].value]

Entry(tag, value, zero) == [tag |-> tag, value |-> value, zero |-> zero]

encodeHTTPHeader(h) ==
    encodeFields(<< Entry(NameTag, h.Name, ""), Entry(ValueTag, h.Value, "") >>)

(* Port has no omitempty: it is written whatever it holds. *)
encodeHTTPHealthCheckConfig(c) ==
    encodeFields(<< Entry(PathTag, c.Path, ""),
                    Entry(PortTag, c.Port, -1),
                    Entry(HostTag, c.Host, ""),
                    Entry(SchemeTag, c.Scheme, ""),
                    Entry(HTTPHeadersTag,
                          [i \in 1..Len(c.HTTPHeaders) |-> encodeHTTPHeader(c.HTTPHeaders[i])],
                          <<>>) >>)

encodeReadinessProbe(p) ==
    encodeFields(<< Entry(InitialDelaySecondsTag, p.InitialDelaySeconds, 0),
                    Entry(TimeoutSecondsTag, p.TimeoutSeconds, 0),
                    Entry(PeriodSecondsTag, p.PeriodSeconds, 0),
                    Entry(SuccessThresholdTag, p.SuccessThreshold, 0),
                    Entry(FailureThresholdTag, p.FailureThreshold, 0),
                    Entry(HTTPGetTag,
                          IF p.HTTPGet = <<>> THEN <<>>
                          ELSE encodeHTTPHealthCheckConfig(p.HTTPGet[1]),
                          <<>>),
                    Entry(TCPSocketTag,
                          IF p.TCPSocket = <<>> THEN <<>> ELSE p.TCPSocket[1], <<>>),
                    Entry(ExecTag,
                          IF p.Exec = <<>> THEN <<>> ELSE p.Exec[1], <<>>) >>)

(* The ways a document spells the key of a field: as the documented        *)
(* example does, as the json tag does, or as the tag in capital letters.   *)
KeyStyles == {"documented", "tag", "capitals"}

Capitals(tag) == [i \in 1..Len(tag) |-> ToUpper(tag[i])]

Spelled(style, documented, tag) ==
    IF style = "documented" THEN documented
    ELSE IF style = "tag" THEN tag
    ELSE Capitals(tag)

ExampleHeaders ==
    << encodeFields(<< Entry(NameTag, "Lit-Header", ""),
                       Entry(ValueTag, "Im-The-Best", "") >>) >>

(* The probe of the documented example, its keys spelled by styles. *)
WrittenHTTPGet(style) ==
    encodeFields(<< Entry(PathTag, "/foo/bar", ""),
                    Entry(HostTag, "127.0.0.1", ""),
                    Entry(PortTag, 3100, -1),
                    Entry(SchemeTag, "HTTPS", ""),
                    Entry(Spelled(style, HTTPHeadersDocumented, HTTPHeadersTag),
                          ExampleHeaders, <<>>) >>)

WrittenProbe(st) ==
    encodeFields(<<
        Entry(Spelled(st[1], InitialDelaySecondsDocumented, InitialDelaySecondsTag), 5, 0),
        Entry(Spelled(st[2], TimeoutSecondsDocumented, TimeoutSecondsTag), 3, 0),
        Entry(Spelled(st[3], PeriodSecondsDocumented, PeriodSecondsTag), 4, 0),
        Entry(Spelled(st[4], SuccessThresholdDocumented, SuccessThresholdTag), 3, 0),
        Entry(Spelled(st[5], FailureThresholdDocumented, FailureThresholdTag), 3, 0),
        Entry(Spelled(st[6], HTTPGetDocumented, HTTPGetTag), WrittenHTTPGet(st[7]), <<>>) >>)

ProbeDocumentSpace == { WrittenProbe(st) : st \in [1..7 -> KeyStyles] }

InitProbe ==
    /\ InitIdle
    /\ arg \in ProbeDocumentSpace

Decode ==
    /\ phase = "init"
    /\ result' = decodeReadinessProbe(arg)
    /\ phase' = "decoded"
    /\ UNCHANGED <<policies, workload, attrs, decision, rule, matched,
                   arg, documents, calls, history>>

Encode ==
    /\ phase = "decoded"
    /\ documents' = << encodeReadinessProbe(result) >>
    /\ phase' = "encoded"
    /\ UNCHANGED <<policies, workload, attrs, decision, rule, matched,
                   arg, calls, history, result>>

NextProbe == Decode \/ Encode

SpecProbe == InitProbe /\ [][NextProbe]_vars

----------------------------------------------------------------------------
(* IP blocks: a Source whose only field is one entry of ipBlocks or of     *)
(* notIpBlocks, written as a single IP or as a CIDR, matched against the   *)
(* source IP of a request.                                                 *)

AddressSpace ==
    { <<1, 2, 3, 4>>, <<1, 2, 3, 0>>, <<1, 2, 3, 128>>, <<1, 2, 0, 0>>,
      <<0, 0, 0, 0>>, <<129, 2, 3, 4>> }

PrefixSpace == { <<>>, <<0>>, <<8>>, <<16>>, <<23>>, <<24>>, <<25>>, <<32>> }

SourceIPSpace ==
    { <<1, 2, 3, 4>>, <<1, 2, 3, 5>>, <<1, 2, 3, 200>>, <<1, 2, 2, 4>>,
      <<1, 3, 3, 4>>, <<129, 2, 3, 4>> }

SourceWithBlock(field, w) ==
    IF field = "ipBlocks"
    THEN [NoSource EXCEPT !.IPBlocks = << parseIPBlock(w) >>]
    ELSE [NoSource EXCEPT !.NotIPBlocks = << parseIPBlock(w) >>]

InitBlock ==
    /\ InitIdle
    /\ arg \in [field : {"ipBlocks", "notIpBlocks"},
                entry : { Written(o, pfx) : o \in AddressSpace, pfx \in PrefixSpace },
                ip : SourceIPSpace]

MatchBlock ==
    /\ phase = "init"
    /\ attrs' = [attrs EXCEPT !.sourceIP = arg.ip]
    /\ matched' = matchSource(SourceWithBlock(arg.field, arg.entry),
                              [attrs EXCEPT !.sourceIP = arg.ip])
    /\ phase' = "source"
    /\ UNCHANGED <<policies, workload, decision, rule, others>>

NextBlock == MatchBlock

SpecBlock == InitBlock /\ [][NextBlock]_vars

----------------------------------------------------------------------------
(* StringMatch, the matcher of the networking resources (query parameters  *)
(* of an HTTPMatchRequest): a written StringMatch is decoded into the      *)
(* struct, the struct is loaded when it is one the source documents, and a *)
(* loaded StringMatch is evaluated against the values of requests.         *)

ExactTag == <<"e", "x", "a", "c", "t">>
PrefixTag == <<"p", "r", "e", "f", "i", "x">>
SuffixTag == <<"s", "u", "f", "f", "i", "x">>
RegexTag == <<"r", "e", "g", "e", "x">>

StringMatchTags == {ExactTag, PrefixTag, SuffixTag, RegexTag}

(* "true" and "tr", letter by letter. *)
valueTrue == <<"t", "r", "u", "e">>
valueTr == <<"t", "r">>

(* Every field is a plain string: a field written with the empty string   *)
(* and a field that is not written decode to the same struct.              *)
decodeStringMatch(object) ==
    [Exact |-> fieldValue(object, ExactTag, empty),
     Prefix |-> fieldValue(object, PrefixTag, empty),
     Suffix |-> fieldValue(object, SuffixTag, empty),
     Regex |-> fieldValue(object, RegexTag, empty)]

populated(sm) ==
    Cardinality({ f \in {"Exact", "Prefix", "Suffix", "Regex"} : sm[f] # empty })

(* "Specified exactly one of the fields below", and `exact: ""` is the     *)
(* documented match of a query parameter without value: the struct with no *)
(* field populated is what that document decodes to.                       *)
validStringMatch(sm) == populated(sm) <= 1

(* The regex engine is external: its verdict is either one. *)
matchString(sm, value) ==
    IF sm.Regex # empty THEN BOOLEAN
    ELSE IF sm.Prefix # empty THEN {HasPrefix(value, sm.Prefix)}
    ELSE IF sm.Suffix # empty THEN {HasSuffix(value, sm.Suffix)}
    ELSE {value = sm.Exact}

WrittenStringMatchSpace ==
    UNION { [tags -> {empty, valueTrue, valueTr}] : tags \in SUBSET StringMatchTags }

InitStringMatch ==
    /\ InitIdle
    /\ arg \in WrittenStringMatchSpace

DecodeStringMatch ==
    /\ phase = "init"
    /\ result' = decodeStringMatch(arg)
    /\ phase' = "decoded"
    /\ UNCHANGED <<policies, workload, attrs, decision, rule, matched,
                   arg, documents, calls, history>>

LoadStringMatch ==
    /\ phase = "decoded"
    /\ policies' = IF validStringMatch(result) THEN <<result>> ELSE <<>>
    /\ phase' = "loaded"
    /\ UNCHANGED <<workload, attrs, decision, rule, matched, others>>

EvaluateStringMatch(value) ==
    /\ phase \in {"loaded", "evaluated"}
    /\ policies # <<>>
    /\ matched' \in matchString(policies[1], value)
    /\ phase' = "evaluated"
    /\ UNCHANGED <<policies, workload, attrs, decision, rule, others>>

NextStringMatch ==
    \/ DecodeStringMatch
    \/ LoadStringMatch
    \/ \E value \in {empty, valueTrue} : EvaluateStringMatch(value)

SpecStringMatch == InitStringMatch /\ [][NextStringMatch]_vars

----------------------------------------------------------------------------
(* PeerAuthentication: the mutual TLS mode in force on a port of a         *)
(* workload, resolved from the policy of the workload and from its         *)
(* parents, the policy of the namespace and the policy of the mesh.        *)

MTLSModeUnset == "UNSET"
MTLSModeDisable == "DISABLE"
MTLSModePermissive == "PERMISSIVE"
MTLSModeStrict == "STRICT"

(* The mode of mutual TLS settings: settings that are not defined, or      *)
(* whose mode is left out, say nothing themselves.                         *)
modeOf(mtls) ==
    IF mtls = <<>> THEN MTLSModeUnset
    ELSE IF mtls[1].Mode = "" THEN MTLSModeUnset
    ELSE mtls[1].Mode

(* The settings of the policy for a port: the port specific ones when the  *)
(* policy has them, otherwise those of the workload.                       *)
ownMode_ignorePort(p, port) == modeOf(p.Mtls)

ownMode(p, port) ==
    IF port \in DOMAIN p.PortLevelMtls THEN modeOf(p.PortLevelMtls[port])
    ELSE modeOf(p.Mtls)

(* Inherit from parent, if has one. Otherwise treated as PERMISSIVE. *)
RECURSIVE inheritedMode(_)
inheritedMode(parents) ==
    IF parents = <<>> THEN MTLSModePermissive
    ELSE IF modeOf(Head(parents).Mtls) # MTLSModeUnset THEN modeOf(Head(parents).Mtls)
    ELSE inheritedMode(Tail(parents))

effectiveMode(p, parents, port) ==
    IF ownMode(p, port) # MTLSModeUnset THEN ownMode(p, port)
    ELSE inheritedMode(parents)

MTLSSpace ==
    { <<>> } \cup { << [Mode |-> m] >> :
                       m \in {"", MTLSModeUnset, MTLSModeDisable,
                              MTLSModePermissive, MTLSModeStrict} }

PortLevelSpace ==
    { <<>> } \cup { [port \in {8080} |-> mtls] : mtls \in MTLSSpace }

PeerAuthenticationSpace ==
    { [Selector |-> << [MatchLabels |-> [k \in {"app"} |-> "finance"]] >>,
       Mtls |-> mtls, PortLevelMtls |-> ports] :
        mtls \in MTLSSpace, ports \in PortLevelSpace }

(* A parent policy has no selector and no port specific settings; a        *)
(* namespace or a mesh may have no policy at all.                          *)
ParentSpace ==
    { <<>> } \cup
    { << [Selector |-> <<>>, Mtls |-> mtls, PortLevelMtls |-> <<>>] >> :
         mtls \in MTLSSpace \ { << [Mode |-> ""] >> } }

InitMode ==
    /\ InitIdle
    /\ arg \in [policy : PeerAuthenticationSpace, namespace : ParentSpace,
                mesh : ParentSpace, port : {80, 8080}]

ResolveMode ==
    /\ phase = "init"
    /\ result' = effectiveMode(arg.policy, arg.namespace \o arg.mesh, arg.port)
    /\ phase' = "resolved"
    /\ UNCHANGED <<policies, workload, attrs, decision, rule, matched,
                   arg, documents, calls, history>>

NextMode == ResolveMode

SpecMode == InitMode /\ [][NextMode]_vars

----------------------------------------------------------------------------
(* DeepCopy of IstioStatus and IstioCondition. The heap is a sequence of   *)
(* objects and an address is an index into it (0 is nil): an IstioStatus   *)
(* points to the array of its Conditions slice, the array holds pointers   *)
(* to IstioConditions, and an IstioCondition points to its Timestamps.     *)

Nil == 0

Timestamp(seconds) == [kind |-> "timestamp", Seconds |-> seconds, Nanos |-> 0]

IstioCondition(status, probe, transition) ==
    [kind |-> "condition", Type |-> "Reconciled", Status |-> status,
     LastProbeTime |-> probe, LastTransitionTime |-> transition,
     Reason |-> "", Message |-> ""]

Array(elems) == [kind |-> "array", elems |-> elems]

IstioStatus(conditions, generation) ==
    [kind |-> "status", Conditions |-> conditions, ObservedGeneration |-> generation]

(* new(IstioStatus), new(IstioCondition) *)
new(kind) ==
    IF kind = "status" THEN IstioStatus(Nil, 0)
    ELSE [IstioCondition("", Nil, Nil) EXCEPT !.Type = ""]

Allocated(h, object) == [heap |-> Append(h, object), out |-> Len(h) + 1]

cloneTimestamp(h, a) ==
    IF a = Nil THEN [heap |-> h, out |-> Nil] ELSE Allocated(h, h[a])

cloneCondition(h, a) ==
    IF a = Nil THEN [heap |-> h, out |-> Nil]
    ELSE LET probe == cloneTimestamp(h, h[a].LastProbeTime)
             transition == cloneTimestamp(probe.heap, h[a].LastTransitionTime)
         IN  Allocated(transition.heap,
                       [h[a] EXCEPT !.LastProbeTime = probe.out,
                                    !.LastTransitionTime = transition.out])

RECURSIVE cloneElems(_, _)
cloneElems(h, elems) ==
    IF elems = <<>> THEN [heap |-> h, out |-> <<>>]
    ELSE LET first == cloneCondition(h, Head(elems))
             rest == cloneElems(first.heap, Tail(elems))
         IN  [heap |-> rest.heap, out |-> <<first.out>> \o rest.out]

cloneArray(h, a) ==
    IF a = Nil THEN [heap |-> h, out |-> Nil]
    ELSE LET copied == cloneElems(h, h[a].elems)
         IN  Allocated(copied.heap, Array(copied.out))

cloneStatus(h, a) ==
    LET conditions == cloneArray(h, h[a].Conditions)
    IN  Allocated(conditions.heap, [h[a] EXCEPT !.Conditions = conditions.out])

(* proto.Clone: a deep copy of the message at a. *)
Clone(h, a) ==
    IF h[a].kind = "status" THEN cloneStatus(h, a) ELSE cloneCondition(h, a)

(* *out = *in *)
DeepCopyInto_shallow(h, in, out) == [heap |-> [h EXCEPT ![out] = h[in]], out |-> out]

(* p := proto.Clone(in); *out = *p *)
DeepCopyInto(h, in, out) ==
    LET p == Clone(h, in)
    IN  [heap |-> [p.heap EXCEPT ![out] = p.heap[p.out]], out |-> out]

(* if in == nil { return nil }; out := new(T); in.DeepCopyInto(out) *)
DeepCopy(h, in) ==
    IF in = Nil THEN [heap |-> h, out |-> Nil]
    ELSE LET made == Allocated(h, new(h[in].kind))
         IN  DeepCopyInto(made.heap, in, made.out)

(* The addresses an object points to. *)
refs(object) ==
    IF object.kind = "status" THEN {object.Conditions} \ {Nil}
    ELSE IF object.kind = "array" THEN { object.elems[i] : i \in 1..Len(object.elems) } \ {Nil}
    ELSE IF object.kind = "condition"
         THEN {object.LastProbeTime, object.LastTransitionTime} \ {Nil}
    ELSE {}

Step(h, as) == as \cup UNION { refs(h[a]) : a \in as }

(* Everything reachable from a: the object, its list, its conditions and   *)
(* their timestamps.                                                       *)
Reach(h, a) == IF a = Nil THEN {} ELSE Step(h, Step(h, Step(h, {a})))

RECURSIVE valueOf(_, _)
valueOf(h, a) ==
    IF a = Nil THEN "nil"
    ELSE IF h[a].kind = "timestamp" THEN h[a]
    ELSE IF h[a].kind = "condition"
         THEN [h[a] EXCEPT !.LastProbeTime = valueOf(h, @),
                           !.LastTransitionTime = valueOf(h, @)]
    ELSE IF h[a].kind = "array"
         THEN [i \in 1..Len(h[a].elems) |-> valueOf(h, h[a].elems[i])]
    ELSE [h[a] EXCEPT !.Conditions = valueOf(h, @)]

(* The changes a holder of an object can make to what it reaches. *)
Changes(object) ==
    IF object.kind = "timestamp" THEN { [object EXCEPT !.Seconds = @ + 1] }
    ELSE IF object.kind = "condition"
         THEN { [object EXCEPT !.Status = IF @ = "True" THEN "False" ELSE "True"],
                [object EXCEPT !.LastProbeTime = Nil] } \ {object}
    ELSE IF object.kind = "array"
         THEN { [object EXCEPT !.elems[i] = Nil] : i \in 1..Len(object.elems) } \ {object}
    ELSE { [object EXCEPT !.ObservedGeneration = @ + 1],
           [object EXCEPT !.Conditions = Nil] } \ {object}

(* A status with two conditions, the first with both timestamps; a status  *)
(* with an empty list; a status with a nil list.                           *)
HeapSpace ==
    { << IstioStatus(2, 1), Array(<<3, 6>>), IstioCondition("True", 4, 5),
         Timestamp(10), Timestamp(20), IstioCondition("False", Nil, Nil) >>,
      << IstioStatus(2, 1), Array(<<>>), IstioCondition("True", 4, Nil),
         Timestamp(10) >>,
      << IstioStatus(Nil, 0), Array(<<3, Nil>>), IstioCondition("Unknown", Nil, 4),
         Timestamp(10) >> }

InitCopy ==
    /\ policies = <<>>
    /\ workload = <<>>
    /\ attrs = NoAttrs
    /\ decision = "NONE"
    /\ rule = EmptyRule
    /\ matched = FALSE
    /\ phase = "init"
    /\ documents = <<>>
    /\ calls = <<>>
    /\ history = {}
    /\ \E h \in HeapSpace, in \in {Nil, 1, 3} :
          /\ arg = [in |-> in, value |-> valueOf(h, in), changed |-> {}, changes |-> 0]
          /\ result = [heap |-> h, out |-> Nil]

Copy ==
    /\ phase = "init"
    /\ result' = DeepCopy(result.heap, arg.in)
    /\ phase' = "copied"
    /\ UNCHANGED <<policies, workload, attrs, decision, rule, matched,
                   arg, documents, calls, history>>

Change(side, a, object) ==
    /\ phase \in {"copied", "changed"}
    /\ arg.changes < MaxChanges
    /\ a \in Reach(result.heap, IF side = "in" THEN arg.in ELSE result.out)
    /\ object \in Changes(result.heap[a])
    /\ result' = [result EXCEPT !.heap[a] = object]
    /\ arg' = [arg EXCEPT !.changed = @ \cup {side}, !.changes = @ + 1]
    /\ phase' = "changed"
    /\ UNCHANGED <<policies, workload, attrs, decision, rule, matched,
                   documents, calls, history>>

NextCopy ==
    \/ Copy
    \/ \E side \in {"in", "out"}, a \in 1..Len(result.heap) :
          \E object \in Changes(result.heap[a]) : Change(side, a, object)

SpecCopy == InitCopy /\ [][NextCopy]_vars

----------------------------------------------------------------------------
(* Snapshots whose policies have two rules, whose rules have two From, To  *)
(* or When entries and whose entries have lists of two values, so that     *)
(* every list of a snapshot can be put in another order.                   *)

SourceTestDev == [NoSource EXCEPT !.Namespaces = <<test, dev>>]

SourceTest == [NoSource EXCEPT !.Namespaces = <<test>>]

OperationHead == [NoOperation EXCEPT !.Methods = <<HEAD>>]

OperationHeadPost == [NoOperation EXCEPT !.Methods = <<HEAD, POST>>]

OperationGNotPaths ==
    [NoOperation EXCEPT !.Methods = <<GStar>>, !.NotPaths = <<healthz, adminStar>>]

ConditionIssOtherGoogle == [Key |-> IssKey, Values |-> <<other, google>>, NotValues |-> <<>>]

TestDevHeadPostRule ==
    [From |-> << [Source |-> <<SourceTest>>], [Source |-> <<SourceTestDev>>] >>,
     To |-> << [Operation |-> <<OperationHead>>], [Operation |-> <<OperationHeadPost>>] >>,
     When |-> <<>>]

IssRule ==
    [From |-> <<>>, To |-> <<>>,
     When |-> << ConditionIssOtherGoogle, ConditionIssNotOther >>]

ProdGRule ==
    [From |-> << [Source |-> << [NoSource EXCEPT !.Namespaces = <<test, proStar>>] >>] >>,
     To |-> << [Operation |-> <<OperationGNotPaths>>] >>,
     When |-> <<>>]

OrderPolicySpace ==
    { [Selector |-> <<>>, Rules |-> rs, Action |-> act] :
        rs \in { <<TestDevHeadPostRule, IssRule>>, <<IssRule, ProdGRule>>, <<ProdGRule>> },
        act \in {AuthorizationPolicyActionAllow, AuthorizationPolicyActionDeny} }

InitOrder ==
    /\ policies \in SeqsUpTo(OrderPolicySpace, MaxPolicies)
    /\ workload = AppHttpbin
    /\ attrs = NoAttrs
    /\ decision = "NONE"
    /\ rule = EmptyRule
    /\ matched = FALSE
    /\ phase = "init"
    /\ NoOthers

NextOrder == \E a \in RequestSpace : Decide(a)

SpecOrder == InitOrder /\ [][NextOrder]_vars

----------------------------------------------------------------------------
(* Adding a policy: a request is decided, an ALLOW policy is added to the  *)
(* snapshot, and the same request is decided again.                        *)

AddPolicySpace ==
    { [Selector |-> sel, Rules |-> rs, Action |-> act] :
        sel \in SelectorSpace,
        rs \in { <<>>, <<EmptyRule>>, <<DevPostRule>> },
        act \in {AuthorizationPolicyActionAllow, AuthorizationPolicyActionDeny} }

AddRequestSpace == { a \in RequestSpace : a.named = <<>> }

InitAdd ==
    /\ policies \in SeqsUpTo(AddPolicySpace, MaxPolicies)
    /\ workload \in LabelsSpace
    /\ attrs = NoAttrs
    /\ decision = "NONE"
    /\ rule = EmptyRule
    /\ matched = FALSE
    /\ phase = "init"
    /\ NoOthers

DecideFirst(a) ==
    /\ phase = "init"
    /\ Decide(a)

(* What the first decision was and how many ALLOW policies applied to the  *)
(* workload are kept for comparison.                                       *)
AddAllowPolicy(p) ==
    /\ phase = "decided"
    /\ effectiveAction(p) = AuthorizationPolicyActionAllow
    /\ policies' = Append(policies, p)
    /\ decision' = decide(Append(policies, p), workload, attrs)
    /\ result' = [before |-> decision,
                  allowBefore |-> Len(withAction(selectPolicies(policies, workload),
                                                 AuthorizationPolicyActionAllow))]
    /\ phase' = "added"
    /\ UNCHANGED <<workload, attrs, rule, matched, arg, documents, calls, history>>

NextAdd ==
    \/ \E a \in AddRequestSpace : DecideFirst(a)
    \/ \E p \in AddPolicySpace : AddAllowPolicy(p)

SpecAdd == InitAdd /\ [][NextAdd]_vars

----------------------------------------------------------------------------
(* Properties of the policy evaluator (checked under Spec)                 *)

Indices == 1..Len(policies)

IsSelected(i) == selects(policies[i].Selector, workload)

(* A policy whose action is not set is an ALLOW policy. *)
IsDeny(i) == policies[i].Action = AuthorizationPolicyActionDeny

IsAllow(i) == policies[i].Action \in {ActionUnset, AuthorizationPolicyActionAllow}

HasMatchingRule(i) ==
    \E j \in 1..Len(policies[i].Rules) : matchRule(policies[i].Rules[j], attrs)

SomeDenyMatches == \E i \in Indices : IsSelected(i) /\ IsDeny(i) /\ HasMatchingRule(i)

SomeAllowSelected == \E i \in Indices : IsSelected(i) /\ IsAllow(i)

SomeAllowMatches == \E i \in Indices : IsSelected(i) /\ IsAllow(i) /\ HasMatchingRule(i)

\* C1: decide returns DENY whenever a DENY policy that selects the workload
\* has a rule matching the request, whatever ALLOW policies are present and
\* whether or not any of them matches.
C1_DenyWins == (phase = "decided" /\ SomeDenyMatches) => decision = "DENY"

C1_Witness ==
    /\ phase = "decided"
    /\ SomeDenyMatches
    /\ SomeAllowMatches
    /\ decision = "DENY"

\* C2: with no ALLOW policy selecting the workload (also when no policy
\* selects it at all) and no selected DENY policy matching, decide returns
\* ALLOW.
C2_AllowWithoutAllowPolicies ==
    (phase = "decided" /\ ~SomeAllowSelected /\ ~SomeDenyMatches)
        => decision = "ALLOW"

C2_Witness ==
    /\ phase = "decided"
    /\ \E i \in Indices : IsSelected(i) /\ IsDeny(i) /\ ~HasMatchingRule(i)
    /\ \E i \in Indices : ~IsSelected(i) /\ IsAllow(i) /\ ~HasMatchingRule(i)
    /\ ~SomeAllowSelected
    /\ decision = "ALLOW"

\* C3: with at least one ALLOW policy selecting the workload and no selected
\* DENY policy matching, decide returns ALLOW exactly when some selected
\* ALLOW policy has a rule matching the request, and DENY otherwise.
C3_AllowNeedsMatch ==
    (phase = "decided" /\ SomeAllowSelected /\ ~SomeDenyMatches)
        => /\ decision \in {"ALLOW", "DENY"}
           /\ decision = "ALLOW" <=> SomeAllowMatches

C3_Witness ==
    /\ phase = "decided"
    /\ SomeAllowSelected
    /\ ~SomeDenyMatches
    /\ ~SomeAllowMatches
    /\ \E i \in Indices : IsSelected(i) /\ IsAllow(i) /\ policies[i].Rules # <<>>
    /\ decision = "DENY"

\* C4: with the single DENY policy "from namespaces [dev] to methods [POST]"
\* and no ALLOW policy, decide returns DENY exactly for the requests whose
\* namespace is "dev" and whose method is "POST"; every other request is
\* allowed.
C4_DevPostScenario ==
    (phase = "decided" /\ policies = <<DevPostDenyPolicy>>)
        => /\ decision \in {"ALLOW", "DENY"}
           /\ decision = "DENY" <=> (attrs.namespace = dev /\ attrs.method = POST)

C4_Witness ==
    /\ phase = "decided"
    /\ policies = <<DevPostDenyPolicy>>
    /\ attrs.namespace = dev
    /\ attrs.method = GET
    /\ decision = "ALLOW"

HasEmptyRule(i) == \E j \in 1..Len(policies[i].Rules) : policies[i].Rules[j] = EmptyRule

\* C5: a selected DENY policy that contains the empty rule makes decide
\* return DENY for every request, whatever other policies the snapshot holds.
C5_DenyAll ==
    (phase = "decided" /\ \E i \in Indices : IsSelected(i) /\ IsDeny(i) /\ HasEmptyRule(i))
        => decision = "DENY"

C5_Witness ==
    /\ phase = "decided"
    /\ \E i \in Indices : IsSelected(i) /\ IsDeny(i) /\ HasEmptyRule(i)
    /\ \E i \in Indices : IsSelected(i) /\ IsAllow(i) /\ HasEmptyRule(i)
    /\ decision = "DENY"

\* C6: a policy whose rules are not set never matches, so when the only
\* ALLOW policies selecting the workload have no rules, decide returns DENY
\* for every request to that workload.
C6_AllowWithoutRulesDenies ==
    (/\ phase = "decided"
     /\ SomeAllowSelected
     /\ \A i \in Indices : (IsSelected(i) /\ IsAllow(i)) => policies[i].Rules = <<>>)
        => decision = "DENY"

C6_Witness ==
    /\ phase = "decided"
    /\ policies = << [Selector |-> <<>>, Rules |-> <<>>, Action |-> ActionUnset] >>
    /\ decision = "DENY"

\* C7: a policy whose action is not set is evaluated as an ALLOW policy: a
\* selected policy with no action and the rules [{}] makes decide return
\* ALLOW for every request that no selected DENY policy matches.
C7_UnsetActionAllows ==
    (/\ phase = "decided"
     /\ \E i \in Indices :
           /\ IsSelected(i)
           /\ policies[i].Action = ActionUnset
           /\ policies[i].Rules = <<EmptyRule>>
     /\ ~SomeDenyMatches)
        => decision = "ALLOW"

C7_Witness ==
    /\ phase = "decided"
    /\ \E i \in Indices :
          /\ IsSelected(i)
          /\ policies[i].Action = ActionUnset
          /\ policies[i].Rules = <<EmptyRule>>
    /\ \E i \in Indices :
          /\ IsSelected(i)
          /\ policies[i].Action = AuthorizationPolicyActionAllow
          /\ ~HasMatchingRule(i)
    /\ decision = "ALLOW"

----------------------------------------------------------------------------
(* Properties of the rule matcher (checked under SpecRule)                 *)

SomeSourceMatches == \E i \in 1..Len(rule.From) : matchRuleFrom(rule.From[i], attrs)

SomeOperationMatches == \E i \in 1..Len(rule.To) : matchRuleTo(rule.To[i], attrs)

SomeConditionMatches == \E i \in 1..Len(rule.When) : matchCondition(rule.When[i], attrs)

EveryConditionMatches == \A i \in 1..Len(rule.When) : matchCondition(rule.When[i], attrs)

\* C8: matchRule is the conjunction of fromMatch, toMatch and whenMatch:
\* fromMatch holds if From is empty and otherwise iff some From entry's
\* Source matches, toMatch holds if To is empty and otherwise iff some To
\* entry's Operation matches; a rule with no From, To and When matches every
\* request.
C8_RuleIsConjunction ==
    phase = "matched"
        => /\ matched = (/\ rule.From = <<>> \/ SomeSourceMatches
                         /\ rule.To = <<>> \/ SomeOperationMatches
                         /\ rule.When = <<>> \/ EveryConditionMatches)
           /\ rule = EmptyRule => matched

C8_Witness ==
    /\ phase = "matched"
    /\ Len(rule.From) = 2 /\ Len(rule.To) = 2
    /\ ~matchRuleFrom(rule.From[1], attrs) /\ matchRuleFrom(rule.From[2], attrs)
    /\ ~matchRuleTo(rule.To[1], attrs) /\ matchRuleTo(rule.To[2], attrs)
    /\ rule.When # <<>>
    /\ matched

SomeNamedSourceMatches ==
    \E i \in 1..Len(rule.From) :
        rule.From[i].Source # <<>> /\ matchSource(rule.From[i].Source[1], attrs)

----------------------------------------------------------------------------
(* Properties of the policy matcher (checked under SpecPolicy)             *)

\* C11: a policy matches a request iff at least one of its rules matches;
\* with the rules [from requestPrincipals ["*"]] and [to paths ["/healthz"]],
\* a request to /healthz that carries no request principal matches.
C11_RulesAreOred ==
    phase = "matched"
        => /\ matched = (\E j \in 1..Len(policies[1].Rules) :
                            matchRule(policies[1].Rules[j], attrs))
           /\ (/\ policies[1].Rules = <<RequestPrincipalRule, HealthzRule>>
               /\ attrs.path = healthz
               /\ attrs.requestPrincipal = empty) => matched

C11_Witness ==
    /\ phase = "matched"
    /\ policies[1].Rules = <<RequestPrincipalRule, HealthzRule>>
    /\ attrs.path = healthz
    /\ attrs.requestPrincipal = empty
    /\ ~matchRule(RequestPrincipalRule, attrs)
    /\ matched

----------------------------------------------------------------------------
(* Properties of the string matcher (checked under SpecMatch)              *)

EndsWithStar(p) == Len(p) > 0 /\ p[Len(p)] = Star

StartsWithStar(p) == Len(p) > 0 /\ p[1] = Star

(* value starts with the first n characters of p *)
StartsWith(v, p, n) == Len(v) >= n /\ \A i \in 1..n : v[i] = p[i]

(* value ends with the last n characters of p *)
EndsWith(v, p, n) ==
    Len(v) >= n /\ \A i \in 1..n : v[Len(v) - n + i] = p[Len(p) - n + i]

abc == <<"a", "b", "c">>
abcd == <<"a", "b", "c", "d">>
xabc == <<"x", "a", "b", "c">>
abcStar == <<"a", "b", "c", Star>>
starAbc == <<Star, "a", "b", "c">>

\* C12: match applies four rules in this order: the pattern "*" matches iff
\* the value is not empty; else a pattern ending in "*" matches iff the value
\* starts with the pattern less its last character (a pattern that starts
\* and ends with "*" is a prefix pattern); else a pattern starting with "*"
\* matches iff the value ends with the pattern less its first character;
\* else it matches iff value and pattern are equal.
C12_MatchRules ==
    /\ phase = "matched" =>
          matched =
              (IF arg.pattern = <<Star>> THEN arg.value # <<>>
               ELSE IF EndsWithStar(arg.pattern)
                    THEN StartsWith(arg.value, arg.pattern, Len(arg.pattern) - 1)
               ELSE IF StartsWithStar(arg.pattern)
                    THEN EndsWith(arg.value, arg.pattern, Len(arg.pattern) - 1)
               ELSE arg.value = arg.pattern)
    /\ match(abcStar, abc) /\ match(abcStar, abcd) /\ ~match(abcStar, <<"a", "b">>)
    /\ match(starAbc, abc) /\ match(starAbc, xabc)
    /\ ~match(<<Star>>, <<>>) /\ match(<<Star>>, <<"x">>)
    /\ match(abc, abc) /\ ~match(abc, abcd)

C12_Witness ==
    /\ phase = "matched"
    /\ arg.pattern = <<Star, "a", Star>>
    /\ arg.value = <<Star, "a", "b">>
    /\ matched

----------------------------------------------------------------------------
(* Properties of the list-pair matcher (checked under SpecPair)            *)

\* C13: matchPair is true iff (positive is empty or the value matches at
\* least one positive entry) and (negative is empty or the value matches no
\* negative entry); a value on both lists fails, and an empty positive list
\* with a negative list that does not match passes.
C13_PairIsConjunction ==
    /\ phase = "matched" =>
          matched =
              (/\ \/ arg.positive = <<>>
                  \/ \E i \in 1..Len(arg.positive) : match(arg.positive[i], arg.value)
               /\ \/ arg.negative = <<>>
                  \/ \A i \in 1..Len(arg.negative) : ~match(arg.negative[i], arg.value))
    /\ ~matchPair(<< <<"a">>, <<"b">> >>, << <<"a">> >>, <<"a">>)
    /\ matchPair(<<>>, << <<"a">> >>, <<"b">>)

C13_Witness ==
    /\ phase = "matched"
    /\ arg.positive = << <<"a">>, <<"b">> >>
    /\ arg.negative = << <<"a">> >>
    /\ arg.value = <<"a">>
    /\ ~matched

----------------------------------------------------------------------------
(* Properties of the Source and Operation matchers (checked under          *)
(* SpecFields)                                                             *)

(* One positive / negative pair of lists against one attribute value. *)
PairPasses(positive, negative, v) ==
    /\ positive = <<>> \/ \E i \in 1..Len(positive) : match(positive[i], v)
    /\ negative = <<>> \/ \A i \in 1..Len(negative) : ~match(negative[i], v)

IPPairPasses(positive, negative, ip) ==
    /\ positive = <<>> \/ \E i \in 1..Len(positive) : ipInBlock(positive[i], ip)
    /\ negative = <<>> \/ \A i \in 1..Len(negative) : ~ipInBlock(negative[i], ip)

ExampleSource ==
    [NoSource EXCEPT !.Principals = <<admin, dev>>,
                     !.Namespaces = <<prod, test>>,
                     !.NotIPBlocks = << SingleIP(1, 2, 3, 4) >>]

ExampleOperation ==
    [NoOperation EXCEPT !.Hosts = <<starExampleCom>>,
                        !.Methods = <<GET, HEAD>>,
                        !.NotPaths = <<adminStar>>]

\* C14: a Source (and likewise an Operation) matches iff all four of its
\* positive / negative pairs pass against the corresponding attribute:
\* principals [admin, dev], namespaces [prod, test], notIpBlocks [1.2.3.4]
\* matches iff the principal is admin or dev, the namespace is prod or test
\* and the source IP is not 1.2.3.4; hosts ["*.example.com"], methods
\* [GET, HEAD], notPaths ["/admin*"] matches iff the host ends with
\* .example.com, the method is GET or HEAD and the path does not start
\* with /admin.
C14_FieldsAreAnded ==
    /\ phase = "source" =>
          /\ matched =
               (/\ PairPasses(arg.src.Principals, arg.src.NotPrincipals, attrs.principal)
                /\ PairPasses(arg.src.RequestPrincipals, arg.src.NotRequestPrincipals,
                              attrs.requestPrincipal)
                /\ PairPasses(arg.src.Namespaces, arg.src.NotNamespaces, attrs.namespace)
                /\ IPPairPasses(arg.src.IPBlocks, arg.src.NotIPBlocks, attrs.sourceIP))
          /\ arg.src = ExampleSource =>
               matched = (/\ attrs.principal \in {admin, dev}
                          /\ attrs.namespace \in {prod, test}
                          /\ attrs.sourceIP # <<1, 2, 3, 4>>)
    /\ phase = "operation" =>
          /\ matched =
               (/\ PairPasses(arg.op.Hosts, arg.op.NotHosts, attrs.host)
                /\ PairPasses(arg.op.Ports, arg.op.NotPorts, attrs.port)
                /\ PairPasses(arg.op.Methods, arg.op.NotMethods, attrs.method)
                /\ PairPasses(arg.op.Paths, arg.op.NotPaths, attrs.path))
          /\ arg.op = ExampleOperation =>
               matched = (/\ EndsWith(attrs.host, starExampleCom, Len(starExampleCom) - 1)
                          /\ attrs.method \in {GET, HEAD}
                          /\ ~StartsWith(attrs.path, adminStar, Len(adminStar) - 1))

C14_Witness ==
    /\ phase = "source"
    /\ arg.src = ExampleSource
    /\ attrs.principal = dev
    /\ attrs.namespace = test
    /\ attrs.sourceIP = <<1, 2, 3, 4>>
    /\ ~matched

----------------------------------------------------------------------------
(* Properties of the Condition matcher (checked under SpecCondition)       *)

KeyAbsent == arg.c.Key \notin DOMAIN attrs.named

(* The values the request carries under the key of the condition. *)
CarriedValues == IF KeyAbsent THEN {} ELSE attrs.named[arg.c.Key]

\* C15: matchCondition is true iff (Values is empty or some attribute value
\* matches some Values entry) and (NotValues is empty or no attribute value
\* matches any NotValues entry); an absent key is the empty value set, so a
\* condition with Values on an absent key fails and the enclosing rule does
\* not match, while a condition with only NotValues on an absent key passes.
C15_ConditionValues ==
    phase = "matched" =>
        /\ matched =
             (/\ \/ arg.c.Values = <<>>
                 \/ \E v \in CarriedValues :
                       \E i \in 1..Len(arg.c.Values) : match(arg.c.Values[i], v)
              /\ \/ arg.c.NotValues = <<>>
                 \/ \A v \in CarriedValues :
                       \A i \in 1..Len(arg.c.NotValues) : ~match(arg.c.NotValues[i], v))
        /\ (KeyAbsent /\ arg.c.Values # <<>>) =>
              /\ ~matched
              /\ ~matchRule([EmptyRule EXCEPT !.When = <<arg.c>>], attrs)
        /\ (KeyAbsent /\ arg.c.Values = <<>> /\ arg.c.NotValues # <<>>) => matched

C15_Witness ==
    /\ phase = "matched"
    /\ arg.c = [Key |-> AudKey, Values |-> <<google>>, NotValues |-> <<>>]
    /\ attrs.named = [k \in {IssKey} |-> {google}]
    /\ ~matched

----------------------------------------------------------------------------
(* Properties of the policy evaluator on request principals (checked under *)
(* SpecAuthn)                                                              *)

(* The only ALLOW policy that selects the workload has the single rule     *)
(* "from requestPrincipals [*]".                                           *)
OnlyAllowWantsRequestPrincipal ==
    \E i \in Indices :
        /\ IsSelected(i) /\ IsAllow(i)
        /\ policies[i].Rules = <<RequestPrincipalRule>>
        /\ \A j \in Indices \ {i} : ~(IsSelected(j) /\ IsAllow(j))

\* C16 as stated: when the only ALLOW policy selecting the workload has the
\* single rule "from requestPrincipals [*]", decide returns ALLOW for every
\* request that carries a request principal and DENY for every request whose
\* request principal is empty.
C16_PrincipalDecides ==
    (phase = "decided" /\ OnlyAllowWantsRequestPrincipal)
        => /\ attrs.requestPrincipal # empty => decision = "ALLOW"
           /\ attrs.requestPrincipal = empty => decision = "DENY"

\* C16 as amended: when the only ALLOW policy selecting the workload has the
\* single rule "from requestPrincipals [*]", decide returns ALLOW for every
\* request that carries a request principal and that no selected DENY policy
\* matches, and DENY for every request whose request principal is empty.
C16_PrincipalDecidesUnlessDenied ==
    (phase = "decided" /\ OnlyAllowWantsRequestPrincipal)
        => /\ (attrs.requestPrincipal # empty /\ ~SomeDenyMatches) => decision = "ALLOW"
           /\ attrs.requestPrincipal = empty => decision = "DENY"

C16_Witness ==
    /\ phase = "decided"
    /\ OnlyAllowWantsRequestPrincipal
    /\ \E i \in Indices : IsSelected(i) /\ IsDeny(i) /\ ~HasMatchingRule(i)
    /\ attrs.requestPrincipal = issSub
    /\ decision = "ALLOW"

(* The selector of policy i lists no label the workload lacks or carries   *)
(* with another value; a policy without selector lists none.               *)
LabelsAgree(p) ==
    \/ p.Selector = <<>>
    \/ \A k \in DOMAIN p.Selector[1].MatchLabels :
          /\ k \in DOMAIN workload
          /\ workload[k] = p.Selector[1].MatchLabels[k]

RECURSIVE Agreeing(_)
Agreeing(ps) ==
    IF ps = <<>> THEN <<>>
    ELSE (IF LabelsAgree(Head(ps)) THEN <<Head(ps)>> ELSE <<>>) \o Agreeing(Tail(ps))

Without(ps, i) == SubSeq(ps, 1, i - 1) \o SubSeq(ps, i + 1, Len(ps))

\* C17: the policies that take part in a decision are exactly those whose
\* selector is absent or lists only labels the workload carries with the
\* same value; removing a policy whose selector does not match the workload
\* from the snapshot leaves the decision unchanged.
C17_SelectorScopes ==
    phase = "decided"
        => /\ selectPolicies(policies, workload) = Agreeing(policies)
           /\ \A i \in Indices :
                 ~LabelsAgree(policies[i])
                     => decide(Without(policies, i), workload, attrs) = decision

(* A two-label selector of which the workload carries one label with       *)
(* another value: the DENY-all policy is out of scope and the request is   *)
(* allowed by the policy without selector.                                 *)
C17_Witness ==
    /\ phase = "decided"
    /\ Len(policies) = 2
    /\ policies[1].Selector = << [MatchLabels |-> AppHttpbinVersionV1] >>
    /\ policies[1].Action = AuthorizationPolicyActionDeny
    /\ policies[1].Rules = <<EmptyRule>>
    /\ policies[2].Selector = <<>>
    /\ policies[2].Action = AuthorizationPolicyActionAllow
    /\ policies[2].Rules = <<EmptyRule>>
    /\ workload["app"] = "httpbin"
    /\ workload["version"] = "v2"
    /\ decision = "ALLOW"

(* The snapshots that were published at some moment of a finished call. *)
PublishedDuring(call) == { history[k] : k \in call.from..call.upto }

\* C19: whatever the interleaving of snapshot replacements with decide
\* calls, the result of every finished call is the decision over one whole
\* snapshot that was published while the call ran (the old one or the new
\* one), never over a mixture of two snapshots.
C19_ReplacementIsAtomic ==
    \A c \in DOMAIN calls :
        calls[c].state = "done"
            => \E s \in PublishedDuring(calls[c]) :
                  /\ calls[c].seen = s
                  /\ calls[c].result = decide(s, workload, calls[c].attrs)

(* A call that began under <<allow-all, deny-all>> and finished after the  *)
(* snapshot was replaced by <<deny-all, allow-all>>, in the middle of its  *)
(* reads.                                                                  *)
C19_Witness ==
    \E c \in DOMAIN calls :
        /\ calls[c].state = "done"
        /\ calls[c].from < calls[c].upto
        /\ history[calls[c].from] = <<AllowAllPolicy, DenyAllPolicy>>
        /\ history[calls[c].upto] = <<DenyAllPolicy, AllowAllPolicy>>
        /\ calls[c].result = "DENY"

UnparsableCIDR(w) ==
    \/ Len(w.octets) # 4
    \/ \E i \in 1..Len(w.octets) : w.octets[i] > 255
    \/ \E i \in 1..Len(w.prefix) : w.prefix[i] > 32

HasUnparsableCIDR(r) ==
    \E i \in 1..Len(r.From) :
        /\ r.From[i].Source # <<>>
        /\ \/ \E k \in 1..Len(r.From[i].Source[1].IPBlocks) :
                 UnparsableCIDR(r.From[i].Source[1].IPBlocks[k])
           \/ \E k \in 1..Len(r.From[i].Source[1].NotIPBlocks) :
                 UnparsableCIDR(r.From[i].Source[1].NotIPBlocks[k])

HasUnsetCondition(r) ==
    \E i \in 1..Len(r.When) : r.When[i].Values = <<>> /\ r.When[i].NotValues = <<>>

Malformed(d) ==
    \E j \in 1..Len(d.Rules) : HasUnparsableCIDR(d.Rules[j]) \/ HasUnsetCondition(d.Rules[j])

UnknownAction(d) ==
    d.Action \notin {ActionUnset, AuthorizationPolicyActionAllow, AuthorizationPolicyActionDeny}

\* C21: a policy document whose action is set to a value other than ALLOW
\* or DENY is excluded when the documents are loaded: it is reported as
\* rejected, every policy of the active snapshot has a known action, the
\* snapshot and every decision are those obtained without the document, so
\* it is never counted or evaluated as an ALLOW policy.
C21_UnknownActionIsExcluded ==
    phase # "init"
        => /\ \A j \in Indices : ~UnknownAction(policies[j])
           /\ \A i \in 1..Len(documents) :
                 UnknownAction(documents[i])
                     => /\ i \in history
                        /\ policies = load(Without(documents, i))
                        /\ phase = "decided"
                              => decision = decide(load(Without(documents, i)), workload, attrs)
           /\ (phase = "decided" /\ \A i \in 1..Len(documents) : UnknownAction(documents[i]))
                 => decision = "ALLOW"

(* The only document has the action AUDIT and the well-formed dev/POST     *)
(* rule; a request that rule does not match is allowed, which an ALLOW     *)
(* policy with that rule would deny.                                       *)
C21_Witness ==
    /\ phase = "decided"
    /\ Len(documents) = 1
    /\ documents[1].Action = AuthorizationPolicyActionAudit
    /\ documents[1].Rules = <<DevPostRule>>
    /\ policies = <<>>
    /\ attrs.namespace = prod
    /\ decision = "ALLOW"

DocumentedProbe == WrittenProbe([i \in 1..7 |-> "documented"])

ExampleHTTPGet ==
    [Path |-> "/foo/bar", Port |-> 3100, Host |-> "127.0.0.1", Scheme |-> "HTTPS",
     HTTPHeaders |-> << [Name |-> "Lit-Header", Value |-> "Im-The-Best"] >>]

\* C22: the WorkloadGroup probe written with the keys of the documented
\* example (initialDelaySeconds, timeoutSeconds, periodSeconds,
\* successThreshold, failureThreshold, httpGet, httpHeaders) decodes into a
\* ReadinessProbe whose fields hold the values of the example, and the
\* probe is written back under those keys.
C22_DocumentedKeysDecode ==
    (phase # "init" /\ arg = DocumentedProbe)
        => /\ result.InitialDelaySeconds = 5
           /\ result.TimeoutSeconds = 3
           /\ result.PeriodSeconds = 4
           /\ result.SuccessThreshold = 3
           /\ result.FailureThreshold = 3
           /\ result.HTTPGet = <<ExampleHTTPGet>>
           /\ phase = "encoded" => documents = <<DocumentedProbe>>

(* Bit i (1 the most significant, 32 the least) of a four-octet address. *)
AddressBit(ip, i) ==
    LET octet == ip[((i - 1) \div 8) + 1]
        shift == 7 - ((i - 1) % 8)
    IN  (octet \div (2 ^ shift)) % 2

(* The entry is that single IP, or a CIDR whose first bits are those of    *)
(* the address.                                                            *)
EntryHolds(w, ip) ==
    IF w.prefix = <<>> THEN w.octets = ip
    ELSE \A i \in 1..w.prefix[1] : AddressBit(w.octets, i) = AddressBit(ip, i)

\* C23: an entry of ipBlocks matches the source IP of a request iff the
\* entry is that single IP or is a CIDR block that contains it, and an
\* entry of notIpBlocks matches iff it does not; the entry 1.2.3.0/24
\* matches the source IP 1.2.3.4, which differs from it as a string.
C23_BlocksAreMembership ==
    phase = "source"
        => /\ arg.field = "ipBlocks"
                => (matched <=> EntryHolds(arg.entry, attrs.sourceIP))
           /\ arg.field = "notIpBlocks"
                => (matched <=> ~EntryHolds(arg.entry, attrs.sourceIP))
           /\ (/\ arg.field = "ipBlocks"
               /\ arg.entry = Written(<<1, 2, 3, 0>>, <<24>>)
               /\ attrs.sourceIP = <<1, 2, 3, 4>>) => matched

C23_Witness ==
    /\ phase = "source"
    /\ arg.field = "ipBlocks"
    /\ arg.entry = Written(<<1, 2, 3, 0>>, <<24>>)
    /\ attrs.sourceIP = <<1, 2, 3, 4>>
    /\ matched

(* The fields of a written StringMatch that hold a non-empty string. *)
WrittenPopulated == { k \in DOMAIN arg : arg[k] # empty }

\* C24: every StringMatch of a loaded snapshot has exactly one of Exact,
\* Prefix, Suffix, Regex populated, and a StringMatch written with none or
\* with more than one populated, the one written as exact: "" included,
\* is never evaluated.
C24_ExactlyOnePopulated ==
    /\ phase \in {"loaded", "evaluated"}
          => \A i \in 1..Len(policies) : populated(policies[i]) = 1
    /\ phase = "evaluated" => Cardinality(WrittenPopulated) = 1

SetModes == {MTLSModeDisable, MTLSModePermissive, MTLSModeStrict}

(* The mode the settings name, or "none" when they are not defined, leave  *)
(* the mode out or name UNSET.                                             *)
NamedMode(mtls) ==
    IF mtls # <<>> /\ mtls[1].Mode \in SetModes THEN mtls[1].Mode ELSE "none"

HasPortEntry == arg.port \in DOMAIN arg.policy.PortLevelMtls

ChosenMode ==
    IF HasPortEntry THEN NamedMode(arg.policy.PortLevelMtls[arg.port])
    ELSE NamedMode(arg.policy.Mtls)

ParentMode(parent) == IF parent = <<>> THEN "none" ELSE NamedMode(parent[1].Mtls)

C26_DeepCopyIsIndependent ==
    phase # "init"
        => /\ arg.in = Nil => result.out = Nil
           /\ arg.in # Nil
                 => /\ result.out \notin {Nil, arg.in}
                    /\ Reach(result.heap, result.out) \cap Reach(result.heap, arg.in) = {}
                    /\ phase = "copied" => valueOf(result.heap, result.out) = arg.value
                    /\ "out" \notin arg.changed => valueOf(result.heap, result.out) = arg.value
                    /\ "in" \notin arg.changed => valueOf(result.heap, arg.in) = arg.value

(* The timestamp of a condition of the copy was changed and the receiver,  *)
(* a status with two conditions, still has its value.                      *)
C26_Witness ==
    /\ phase = "changed"
    /\ arg.in = 1
    /\ arg.changed = {"out"}
    /\ Len(arg.value.Conditions) = 2
    /\ \E a \in Reach(result.heap, result.out) :
          /\ result.heap[a].kind = "timestamp"
          /\ result.heap[a].Seconds = 11
    /\ valueOf(result.heap, arg.in) = arg.value
    /\ valueOf(result.heap, result.out) # arg.value

\* C27: a DENY policy without any rule matches no request and never makes
\* decide return DENY: the decision is the one taken without the policy,
\* and it is ALLOW when the workload has no other policy.
C27_DenyWithoutRulesNeverDenies ==
    phase = "decided"
        => \A i \in Indices :
              (IsDeny(i) /\ policies[i].Rules = <<>>)
                  => /\ ~policyMatches(policies[i], attrs)
                     /\ decide(Without(policies, i), workload, attrs) = decision
                     /\ (\A j \in Indices \ {i} : ~IsSelected(j)) => decision = "ALLOW"

C27_Witness ==
    /\ phase = "decided"
    /\ Len(policies) = 1
    /\ IsSelected(1)
    /\ IsDeny(1)
    /\ policies[1].Rules = <<>>
    /\ attrs.namespace = dev
    /\ attrs.method = POST
    /\ decision = "ALLOW"

(* The orders a list can be put in. *)
Perms(list) ==
    { [i \in 1..Len(list) |-> list[f[i]]] :
        f \in { g \in [1..Len(list) -> 1..Len(list)] :
                  \A i, j \in 1..Len(list) : g[i] = g[j] => i = j } }

(* A record with one of its lists in another order, and a list with one of *)
(* its entries replaced.                                                   *)
PermuteField(r, f) == { [r EXCEPT ![f] = p] : p \in Perms(r[f]) }

ReplaceEntry(list, alternatives(_)) ==
    UNION { { [list EXCEPT ![i] = x] : x \in alternatives(list[i]) } : i \in 1..Len(list) }

ValueListsReordered(r) == UNION { PermuteField(r, f) : f \in DOMAIN r }

FromEntryReordered(e) ==
    IF e.Source = <<>> THEN {e}
    ELSE { [Source |-> <<x>>] : x \in ValueListsReordered(e.Source[1]) }

ToEntryReordered(e) ==
    IF e.Operation = <<>> THEN {e}
    ELSE { [Operation |-> <<x>>] : x \in ValueListsReordered(e.Operation[1]) }

ConditionReordered(c) == PermuteField(c, "Values") \cup PermuteField(c, "NotValues")

RuleReordered(r) ==
    PermuteField(r, "From") \cup PermuteField(r, "To") \cup PermuteField(r, "When")
        \cup { [r EXCEPT !.From = x] : x \in ReplaceEntry(r.From, FromEntryReordered) }
        \cup { [r EXCEPT !.To = x] : x \in ReplaceEntry(r.To, ToEntryReordered) }
        \cup { [r EXCEPT !.When = x] : x \in ReplaceEntry(r.When, ConditionReordered) }

PolicyReordered(p) ==
    PermuteField(p, "Rules")
        \cup { [p EXCEPT !.Rules = x] : x \in ReplaceEntry(p.Rules, RuleReordered) }

SnapshotReordered(ps) == Perms(ps) \cup ReplaceEntry(ps, PolicyReordered)

\* C28: putting the policies of the snapshot, the rules of a policy, the
\* From, To or When entries of a rule, or the values of any value list in
\* another order leaves the decision for every request unchanged.
C28_OrderIsIrrelevant ==
    phase = "decided"
        => \A ps \in SnapshotReordered(policies) : decide(ps, workload, attrs) = decision

(* A DENY policy after an ALLOW policy, each of two rules with lists of    *)
(* two entries, denies the dev/POST request its second To entry matches.   *)
C28_Witness ==
    /\ phase = "decided"
    /\ Len(policies) = 2
    /\ policies[1].Action = AuthorizationPolicyActionAllow
    /\ policies[1].Rules = <<IssRule, ProdGRule>>
    /\ policies[2].Action = AuthorizationPolicyActionDeny
    /\ policies[2].Rules = <<TestDevHeadPostRule, IssRule>>
    /\ attrs.namespace = dev
    /\ attrs.method = POST
    /\ attrs.named = <<>>
    /\ Cardinality(SnapshotReordered(policies)) > 10
    /\ decision = "DENY"

\* C29: when at least one ALLOW policy selected the workload, adding a
\* further ALLOW policy never changes the decision for a request from
\* ALLOW to DENY; a change from ALLOW to DENY by an added ALLOW policy
\* happens only when no ALLOW policy selected the workload before.
C29_AddingAllowKeepsAllow ==
    phase = "added"
        => /\ (result.allowBefore >= 1 /\ result.before = "ALLOW") => decision = "ALLOW"
           /\ (result.before = "ALLOW" /\ decision = "DENY") => result.allowBefore = 0

(* An ALLOW policy that does not match the request is added next to an     *)
(* ALLOW policy that does: the request stays allowed.                      *)
C29_Witness ==
    /\ phase = "added"
    /\ result.allowBefore = 1
    /\ result.before = "ALLOW"
    /\ Len(policies) = 2
    /\ IsSelected(2)
    /\ ~HasMatchingRule(2)
    /\ decision = "ALLOW"

(* The first ALLOW policy of a workload, added without matching the        *)
(* request, turns ALLOW into DENY.                                         *)
C29_FirstAllowDenies ==
    /\ phase = "added"
    /\ result.allowBefore = 0
    /\ result.before = "ALLOW"
    /\ decision = "DENY"

AllowDocuments ==
    { i \in 1..Len(documents) : documents[i].Action = AuthorizationPolicyActionAllow }

OnlyAllowIsRejected ==
    /\ Cardinality(AllowDocuments) = 1
    /\ \A i \in AllowDocuments : Malformed(documents[i]) /\ i \in history

\* C30: when the only ALLOW document that selects the workload is rejected
\* at load, no ALLOW policy applies to the workload, and every request that
\* no DENY policy matches is allowed, whether or not the well-formed rules
\* of the rejected document would have matched it.
C30_RejectedAllowFailsOpen ==
    (phase # "init" /\ OnlyAllowIsRejected)
        => /\ ~SomeAllowSelected
           /\ (phase = "decided" /\ ~SomeDenyMatches) => decision = "ALLOW"

(* The only document is an ALLOW document with the dev/POST rule and a     *)
(* rule whose Condition is unset; a request the dev/POST rule does not     *)
(* match is allowed.                                                       *)
C30_Witness ==
    /\ phase = "decided"
    /\ documents = << [Selector |-> <<>>,
                       Rules |-> << DevPostRule, RuleWhen(ConditionUnset) >>,
                       Action |-> AuthorizationPolicyActionAllow] >>
    /\ history = {1}
    /\ policies = <<>>
    /\ ~matchRule(DevPostRule, attrs)
    /\ decision = "ALLOW"

====
